---- MODULE Spec2Model ----
(***************************************************************************)
(* A model of pygsti/algorithms/fiducialselection.py: the circuit-matrix   *)
(* cache and its cleaning pass, the prep/meas effective-vector caches, the *)
(* completeness score, the "slack" local search, the GRASP selector and    *)
(* find_fiducials.                                                         *)
(*                                                                         *)
(* Arithmetic.  Operation matrices are integer monomial matrices (one      *)
(* non-zero entry per row and column) and native states/effects are        *)
(* multiples of basis vectors, so every effective vector is a multiple of  *)
(* a basis vector, every Gram matrix M.M^T is diagonal and its eigenvalues *)
(* are exactly its diagonal entries.  Scores are exact rationals extended  *)
(* with the magnitudes the code hard-wires (1e10, 1e100, +inf).            *)
(***************************************************************************)
EXTENDS Integers, Sequences, FiniteSets, TLC

VARIABLES
    caller,         \* the find_fiducials call in progress (stage "none": there is none)
    pc,             \* position of the running call ("done"/"raised" at the end)
    model,          \* name of the process model (key of Models)
    prep_or_meas,   \* role: "prep" or "meas"
    fid_list,       \* the list of circuits handed to the call
    args,           \* the remaining keyword arguments of the call
    fid_cache,      \* the prep/meas cache handed to the call, or None
    circuit_cache,  \* clean_fid_list: its circuit_cache argument
    weights,        \* slack: current inclusion vector
    score,          \* slack: current score
    L1,             \* slack: number of included circuits
    lessWeightOnly, \* slack: only moves to lighter vectors are allowed
    scoreD,         \* slack: memo table, inclusion vector -> score
    iIter,          \* slack: rounds done; grasp: restart index
    failCount,      \* grasp: failed attempts of the current restart
    initialSolns,   \* grasp: initial solution of each finished restart
    localSolns,     \* grasp: local solution of each finished restart
    ret             \* what the call returned, or the exception it raised

vars == <<caller, pc, model, prep_or_meas, fid_list, args, fid_cache, circuit_cache,
          weights, score, L1, lessWeightOnly, scoreD, iIter, failCount,
          initialSolns, localSolns, ret>>

\* Python's None; every optional value of the model is a record
None == [none |-> TRUE]

\* no find_fiducials call is in progress: a selector or helper is called
\* directly
NoCaller == [stage |-> "none"]

(***************************************************************************)
(* Numbers (floats): (e100*1e100 + e10*1e10 + n) / d, +inf, or nan.        *)
(***************************************************************************)
Abs(x) == IF x < 0 THEN -x ELSE x

RECURSIVE GCD(_, _)
GCD(a, b) == IF b = 0 THEN a ELSE GCD(b, a % b)

Inf == [inf |-> TRUE, nan |-> FALSE, e100 |-> 0, e10 |-> 0, n |-> 0, d |-> 1]
NaN == [inf |-> FALSE, nan |-> TRUE, e100 |-> 0, e10 |-> 0, n |-> 0, d |-> 1]

NumNorm(x) ==
    LET g == GCD(GCD(Abs(x.e100), Abs(x.e10)), GCD(Abs(x.n), x.d))
    IN  [inf |-> FALSE, nan |-> FALSE, e100 |-> x.e100 \div g, e10 |-> x.e10 \div g,
         n |-> x.n \div g, d |-> x.d \div g]

Rat(p, q) == NumNorm([e100 |-> 0, e10 |-> 0, n |-> p, d |-> q])
Num(p) == Rat(p, 1)
E10 == NumNorm([e100 |-> 0, e10 |-> 1, n |-> 0, d |-> 1])
E100 == NumNorm([e100 |-> 1, e10 |-> 0, n |-> 0, d |-> 1])

IsZero(x) == ~x.inf /\ ~x.nan /\ x.e100 = 0 /\ x.e10 = 0 /\ x.n = 0

NumAdd(x, y) ==
    IF x.nan \/ y.nan THEN NaN
    ELSE IF x.inf \/ y.inf THEN Inf
    ELSE NumNorm([e100 |-> x.e100 * y.d + y.e100 * x.d,
                  e10 |-> x.e10 * y.d + y.e10 * x.d,
                  n |-> x.n * y.d + y.n * x.d,
                  d |-> x.d * y.d])

\* x * y for a non-negative y that is +inf or a rational (no 1e10 / 1e100
\* part); 0 * inf is nan
NumMul(x, y) ==
    IF x.nan \/ y.nan THEN NaN
    ELSE IF (x.inf /\ IsZero(y)) \/ (y.inf /\ IsZero(x)) THEN NaN
    ELSE IF x.inf \/ y.inf THEN Inf
    ELSE NumNorm([e100 |-> x.e100 * y.n, e10 |-> x.e10 * y.n,
                  n |-> x.n * y.n, d |-> x.d * y.d])

\* comparisons with nan are False
NumLt(x, y) ==
    IF x.nan \/ y.nan THEN FALSE
    ELSE IF x.inf THEN FALSE
    ELSE IF y.inf THEN TRUE
    ELSE LET a == <<x.e100 * y.d, x.e10 * y.d, x.n * y.d>>
             b == <<y.e100 * x.d, y.e10 * x.d, y.n * x.d>>
         IN  \/ a[1] < b[1]
             \/ a[1] = b[1] /\ a[2] < b[2]
             \/ a[1] = b[1] /\ a[2] = b[2] /\ a[3] < b[3]

NumLe(x, y) == ~x.nan /\ ~y.nan /\ ~NumLt(y, x)

\* Python truthiness of an optional number: None and 0 are falsy
Truthy(x) == x # None /\ ~IsZero(x)

(***************************************************************************)
(* Vectors and matrices (a matrix is the sequence of its rows).            *)
(***************************************************************************)
RECURSIVE SumSeq(_)
SumSeq(s) == IF s = <<>> THEN 0 ELSE Head(s) + SumSeq(Tail(s))

Identity(dim) == [i \in 1..dim |-> [j \in 1..dim |-> IF i = j THEN 1 ELSE 0]]

MatMul(A, B) ==
    [i \in 1..Len(A) |-> [j \in 1..Len(B[1]) |->
        SumSeq([k \in 1..Len(B) |-> A[i][k] * B[k][j]])]]

\* numpy.dot(matrix, vector) and numpy.dot(vector, matrix)
MatVec(A, v) == [i \in 1..Len(A) |-> SumSeq([k \in 1..Len(v) |-> A[i][k] * v[k]])]
VecMat(v, A) == [j \in 1..Len(A[1]) |-> SumSeq([k \in 1..Len(v) |-> v[k] * A[k][j]])]

\* square of numpy.linalg.norm(A - B)
FrobSq(A, B) ==
    SumSeq([i \in 1..Len(A) |->
        SumSeq([j \in 1..Len(A[i]) |-> (A[i][j] - B[i][j]) * (A[i][j] - B[i][j])])])

\* numpy.linalg.norm(A - B) < eq_thresh, with eq_thresh given by its square
\* rounded up to an integer (all entries are integers, so eq_thresh = 1e-6
\* is eq_thresh_sq = 1: only equal matrices are within it)
WithinThresh(A, B, eq_thresh_sq) == FrobSq(A, B) < eq_thresh_sq

(***************************************************************************)
(* Circuits and process models.                                            *)
(***************************************************************************)
\* Circuit.str: "{}" for the empty circuit, else the labels run together
RECURSIVE Str(_)
Str(c) ==
    IF c = <<>> THEN "{}"
    ELSE IF Len(c) = 1 THEN c[1]
    ELSE c[1] \o Str(Tail(c))

Swap == <<<<0, 1>>, <<1, 0>>>>
SwapScale == <<<<0, 2>>, <<1, 0>>>>

\* A native state or effect: its parameter vector (to_vector) and its dense
\* vector (to_dense).  A fully parameterized object has params = dense; a
\* static object has no parameters.
Full(v) == [params |-> v, dense |-> v, complement |-> FALSE]
Static(v) == [params |-> <<>>, dense |-> v, complement |-> FALSE]
Complement(v) == [params |-> <<>>, dense |-> v, complement |-> TRUE]

ScoreModelNames == {"full", "dup", "static"}

\* "preps2" has two native states and "povm2" two native effects, so the
\* empty circuit alone is complete for one role and not for the other
\* "twoids" has two identity operations next to each other in the order of
\* its operations
ModelNames == ScoreModelNames \cup {"preps2", "povm2", "twoids"}

Models ==
    [name \in ModelNames |->
        [dim |-> 2,
         opLabels |-> IF name = "twoids" THEN <<"Gi", "Gj", "Gx">>
                      ELSE <<"Gi", "Gx", "Gy">>,
         operations |-> [Gi |-> Identity(2), Gj |-> Identity(2), Gx |-> Swap,
                         Gy |-> SwapScale],
         preps |->
            CASE name \in {"full", "povm2", "twoids"} -> <<Full(<<1, 0>>)>>
              [] name = "preps2" -> <<Full(<<1, 0>>), Full(<<0, 1>>)>>
              [] name = "dup" -> <<Full(<<1, 0>>), Full(<<1, 0>>)>>
              [] name = "static" -> <<Static(<<1, 0>>), Static(<<0, 1>>)>>,
         povms |->
            CASE name \in {"full", "preps2", "twoids"} ->
                    <<[params |-> <<1, 0>>,
                       effects |-> <<Full(<<1, 0>>), Complement(<<0, 1>>)>>]>>
              [] name = "povm2" ->
                    <<[params |-> <<1, 0, 0, 1>>,
                       effects |-> <<Full(<<1, 0>>), Full(<<0, 1>>),
                                     Complement(<<0, 0>>)>>]>>
              [] name = "dup" ->
                    <<[params |-> <<1, 0, 1, 0>>,
                       effects |-> <<Full(<<1, 0>>), Full(<<1, 0>>),
                                     Complement(<<0, 1>>)>>]>>
              [] name = "static" ->
                    <<[params |-> <<>>,
                       effects |-> <<Static(<<1, 0>>), Static(<<0, 1>>)>>]>>]]

\* model.sim.product(circuit): the operation matrices composed in sequence,
\* later operations multiplying from the left; the identity for the empty
\* circuit
RECURSIVE Product(_, _)
Product(m, c) ==
    IF c = <<>> THEN Identity(m.dim)
    ELSE MatMul(m.operations[c[Len(c)]], Product(m, SubSeq(c, 1, Len(c) - 1)))

(***************************************************************************)
(* Python dicts keep insertion order: a dict is a sequence of entries      *)
(* [key, val] with distinct keys.                                          *)
(***************************************************************************)
DictKeys(d) == [i \in 1..Len(d) |-> d[i].key]
HasKey(d, k) == \E i \in 1..Len(d) : d[i].key = k
DictGet(d, k) == d[CHOOSE i \in 1..Len(d) : d[i].key = k].val
DictSet(d, k, v) ==
    IF HasKey(d, k)
    THEN [i \in 1..Len(d) |-> IF d[i].key = k THEN [key |-> k, val |-> v] ELSE d[i]]
    ELSE Append(d, [key |-> k, val |-> v])

RECURSIVE create_circuit_cache(_, _)
create_circuit_cache(m, circuit_list) ==
    IF circuit_list = <<>> THEN <<>>
    ELSE LET n == Len(circuit_list)
             c == circuit_list[n]
         IN  DictSet(create_circuit_cache(m, SubSeq(circuit_list, 1, n - 1)),
                     Str(c), Product(m, c))

(***************************************************************************)
(* Effective-vector caches.  A cache is the pair the code returns:         *)
(* vecs (prep_cache[0], a dict that is only ever looked up, so a function) *)
(* and keys (prep_cache[1], the list of native-object keys).  The key of a *)
(* native object is the bytes of its parameter vector, modelled by the     *)
(* parameter vector.  An optional circuit cache is None or [dict |-> d].   *)
(***************************************************************************)
\* a dict with no entries, as a function
EmptyDict == [x \in {} |-> x]

PTMOf(m, c, cc) == IF cc # None THEN DictGet(cc.dict, Str(c)) ELSE Product(m, c)

RECURSIVE prep_cache_fill(_, _, _, _, _)
prep_cache_fill(m, rho, fids, cc, acc) ==
    IF fids = <<>> THEN acc
    ELSE prep_cache_fill(m, rho, Tail(fids), cc,
            (<<rho.params, Str(Head(fids))>> :> MatVec(PTMOf(m, Head(fids), cc), rho.dense))
                @@ acc)

RECURSIVE create_prep_cache_loop(_, _, _, _, _)
create_prep_cache_loop(m, rhos, fids, cc, acc) ==
    IF rhos = <<>> THEN acc
    ELSE create_prep_cache_loop(m, Tail(rhos), fids, cc,
            [vecs |-> prep_cache_fill(m, Head(rhos), fids, cc, acc.vecs),
             keys |-> Append(acc.keys, Head(rhos).params)])

create_prep_cache(m, available_prep_fid_list, cc) ==
    create_prep_cache_loop(m, m.preps, available_prep_fid_list, cc,
                           [vecs |-> EmptyDict, keys |-> <<>>])

\* the (povm, effect) pairs the loops visit: every effect of every POVM that
\* is not a ComplementPOVMEffect, in order
RECURSIVE SelectEffects(_, _)
SelectEffects(povm, effects) ==
    IF effects = <<>> THEN <<>>
    ELSE (IF Head(effects).complement THEN <<>>
          ELSE <<[povm |-> povm.params, E |-> Head(effects)]>>)
         \o SelectEffects(povm, Tail(effects))

RECURSIVE NativeEffects(_)
NativeEffects(povms) ==
    IF povms = <<>> THEN <<>>
    ELSE SelectEffects(Head(povms), Head(povms).effects) \o NativeEffects(Tail(povms))

RECURSIVE meas_cache_fill(_, _, _, _, _)
meas_cache_fill(m, pe, fids, cc, acc) ==
    IF fids = <<>> THEN acc
    ELSE meas_cache_fill(m, pe, Tail(fids), cc,
            (<<pe.povm, pe.E.params, Str(Head(fids))>>
                :> VecMat(pe.E.dense, PTMOf(m, Head(fids), cc))) @@ acc)

RECURSIVE create_meas_cache_loop(_, _, _, _, _)
create_meas_cache_loop(m, pes, fids, cc, acc) ==
    IF pes = <<>> THEN acc
    ELSE create_meas_cache_loop(m, Tail(pes), fids, cc,
            [vecs |-> meas_cache_fill(m, Head(pes), fids, cc, acc.vecs),
             keys |-> Append(acc.keys, <<Head(pes).povm, Head(pes).E.params>>)])

create_meas_cache(m, available_meas_fid_list, cc) ==
    create_meas_cache_loop(m, NativeEffects(m.povms), available_meas_fid_list, cc,
                           [vecs |-> EmptyDict, keys |-> <<>>])

(***************************************************************************)
(* create_prep_mxs / create_meas_mxs: one dim x numFid matrix per native   *)
(* object, column i being fiducial i's effective vector.  The result is    *)
(* [mxs |-> list] or [exc |-> "KeyError"].                                 *)
(***************************************************************************)
KeyError == [exc |-> "KeyError"]
ValueError == [exc |-> "ValueError"]
IsExc(r) == "exc" \in DOMAIN r

\* the matrix whose columns are cols (each of length dim)
FromColumns(dim, cols) == [r \in 1..dim |-> [i \in 1..Len(cols) |-> cols[i][r]]]

\* create_prep_mxs falling back to the model when a cache key is missing
create_prep_mxs_fallback(m, prep_fid_list, prep_cache) ==
    [mxs |-> [k \in 1..Len(m.preps) |->
                FromColumns(m.dim, [i \in 1..Len(prep_fid_list) |->
                    MatVec(Product(m, prep_fid_list[i]), m.preps[k].dense)])]]

create_prep_mxs(m, prep_fid_list, prep_cache) ==
    IF prep_cache # None
    THEN IF \E k \in 1..Len(prep_cache.keys), i \in 1..Len(prep_fid_list) :
                <<prep_cache.keys[k], Str(prep_fid_list[i])>> \notin DOMAIN prep_cache.vecs
         THEN KeyError
         ELSE [mxs |-> [k \in 1..Len(prep_cache.keys) |->
                    FromColumns(m.dim, [i \in 1..Len(prep_fid_list) |->
                        prep_cache.vecs[<<prep_cache.keys[k], Str(prep_fid_list[i])>>]])]]
    ELSE [mxs |-> [k \in 1..Len(m.preps) |->
                FromColumns(m.dim, [i \in 1..Len(prep_fid_list) |->
                    MatVec(Product(m, prep_fid_list[i]), m.preps[k].dense)])]]

create_meas_mxs(m, meas_fid_list, meas_cache) ==
    IF meas_cache # None
    THEN IF \E k \in 1..Len(meas_cache.keys), i \in 1..Len(meas_fid_list) :
                <<meas_cache.keys[k][1], meas_cache.keys[k][2], Str(meas_fid_list[i])>>
                    \notin DOMAIN meas_cache.vecs
         THEN KeyError
         ELSE [mxs |-> [k \in 1..Len(meas_cache.keys) |->
                    FromColumns(m.dim, [i \in 1..Len(meas_fid_list) |->
                        meas_cache.vecs[<<meas_cache.keys[k][1], meas_cache.keys[k][2],
                                          Str(meas_fid_list[i])>>]])]]
    ELSE LET pes == NativeEffects(m.povms)
         IN  [mxs |-> [k \in 1..Len(pes) |->
                FromColumns(m.dim, [i \in 1..Len(meas_fid_list) |->
                    VecMat(pes[k].E.dense, Product(m, meas_fid_list[i]))])]]

(***************************************************************************)
(* The completeness score.                                                 *)
(***************************************************************************)
\* numpy.concatenate(fidArrayList, axis=1)
RECURSIVE ConcatColumns(_, _)
ConcatColumns(dim, mxs) ==
    IF mxs = <<>> THEN [r \in 1..dim |-> <<>>]
    ELSE LET rest == ConcatColumns(dim, Tail(mxs))
         IN  [r \in 1..dim |-> Head(mxs)[r] \o rest[r]]

\* numpy.dot(scoreMx, scoreMx.T)
Gram(M) ==
    [i \in 1..Len(M) |-> [j \in 1..Len(M) |->
        SumSeq([k \in 1..Len(M[i]) |-> M[i][k] * M[j][k]])]]

RECURSIVE Insert(_, _)
Insert(x, s) ==
    IF s = <<>> THEN <<x>>
    ELSE IF x <= Head(s) THEN <<x>> \o s
    ELSE <<Head(s)>> \o Insert(x, Tail(s))

RECURSIVE Sort(_)
Sort(s) == IF s = <<>> THEN <<>> ELSE Insert(Head(s), Sort(Tail(s)))

\* numpy.linalg.eigvalsh of a diagonal matrix: its diagonal, ascending
Eigvalsh(G) == Sort([i \in 1..Len(G) |-> G[i][i]])

\* an eigenvalue below the hard-coded noise floor 10**-10 (eigenvalues are
\* non-negative integers here: exactly the zero ones)
BelowNoiseFloor(x) == x < 1

RECURSIVE SumRecip(_)
SumRecip(s) == IF s = <<>> THEN Num(0) ELSE NumAdd(Rat(1, Head(s)), SumRecip(Tail(s)))

RECURSIVE TotalOps(_)
TotalOps(fl) == IF fl = <<>> THEN 0 ELSE Len(Head(fl)) + TotalOps(Tail(fl))

\* _scoring.CompositeScore(major, minor, n) and its ordering: by major, then
\* by minor
CompositeScore(major, minor, n) == [major |-> major, minor |-> minor, N |-> n]
CompositeLt(a, b) ==
    \/ a.major < b.major
    \/ a.major = b.major /\ NumLt(a.minor, b.minor)

\* returns [score, spectrum] (the caller's return_all picks what it keeps),
\* or the exception raised
compute_composite_fiducial_score(m, fl, role, score_func, threshold, op_penalty, l1_penalty, cache) ==
    IF role \notin {"prep", "meas"} THEN ValueError
    ELSE
    LET fidArrayList == IF role = "prep" THEN create_prep_mxs(m, fl, cache)
                        ELSE create_meas_mxs(m, fl, cache)
    IN  IF IsExc(fidArrayList) THEN fidArrayList
        ELSE
        LET numFids == Len(fl)
            scoreMx == ConcatColumns(m.dim, fidArrayList.mxs)
            scoreSqMx == Gram(scoreMx)
            spectrum == Sort([i \in 1..m.dim |-> Abs(Eigvalsh(scoreSqMx)[i])])
            specLen == Len(spectrum)
            N_nonzero == specLen
                         - Cardinality({i \in 1..specLen : BelowNoiseFloor(spectrum[i])})
            top == SubSeq(spectrum, specLen - N_nonzero + 1, specLen)
        IN  IF N_nonzero # 0 /\ score_func \notin {"all", "worst"} THEN ValueError
            ELSE
            LET nonzero_score ==
                    IF N_nonzero = 0 THEN Inf
                    ELSE IF score_func = "all"
                         THEN NumMul(SumRecip(top), Num(numFids))
                         ELSE NumMul(Rat(1, top[1]), Num(numFids))
                withL1 == NumAdd(nonzero_score, NumMul(l1_penalty, Num(Len(fl))))
                withOp == NumAdd(withL1, NumMul(op_penalty, Num(TotalOps(fl))))
            IN  [score |-> CompositeScore(-N_nonzero, withOp, N_nonzero),
                 spectrum |-> spectrum]

\* test_fiducial_list passing every list with a non-zero eigenvalue
test_fiducial_list_nonzero(m, fl, role, score_func, threshold, l1_penalty, op_penalty, cache) ==
    LET r == compute_composite_fiducial_score(m, fl, role, score_func, threshold,
                                              op_penalty, l1_penalty, cache)
    IN  IF IsExc(r) THEN r
        ELSE [testResult |-> r.score.N > 0,
              spectrum |-> r.spectrum, score |-> r.score]

\* test_fiducial_list comparing N with the dimension the wrong way
test_fiducial_list_le(m, fl, role, score_func, threshold, l1_penalty, op_penalty, cache) ==
    LET r == compute_composite_fiducial_score(m, fl, role, score_func, threshold,
                                              op_penalty, l1_penalty, cache)
    IN  IF IsExc(r) THEN r
        ELSE [testResult |-> ~(r.score.N <= Len(r.spectrum)),
              spectrum |-> r.spectrum, score |-> r.score]

\* returns [testResult, spectrum, score], or the exception raised
test_fiducial_list(m, fl, role, score_func, threshold, l1_penalty, op_penalty, cache) ==
    LET r == compute_composite_fiducial_score(m, fl, role, score_func, threshold,
                                              op_penalty, l1_penalty, cache)
    IN  IF IsExc(r) THEN r
        ELSE [testResult |-> ~(r.score.N < Len(r.spectrum)),
              spectrum |-> r.spectrum, score |-> r.score]

(***************************************************************************)
(* Candidate circuits.                                                     *)
(***************************************************************************)
RECURSIVE Pow(_, _)
Pow(b, e) == IF e = 0 THEN 1 ELSE b * Pow(b, e - 1)

RECURSIVE Flatten(_)
Flatten(ss) == IF ss = <<>> THEN <<>> ELSE Head(ss) \o Flatten(Tail(ss))

\* every circuit of exactly n labels, the first label varying slowest
CircuitsOfLen(labels, n) ==
    [k \in 1..Pow(Len(labels), n) |->
        [p \in 1..n |-> labels[(((k - 1) \div Pow(Len(labels), n - p)) % Len(labels)) + 1]]]

\* _circuits.list_all_circuits(labels, minlen, maxlen)
list_all_circuits(labels, minlen, maxlen) ==
    Flatten([n \in 1..(maxlen - minlen + 1) |-> CircuitsOfLen(labels, minlen + n - 1)])

\* find_fiducials' default max_fid_length
DefaultMaxFidLength == 2

\* the sub-list of s at the positions in S, in order
RECURSIVE Pick(_, _)
Pick(s, S) ==
    IF S = {} THEN <<>>
    ELSE LET i == CHOOSE x \in S : \A y \in S : x <= y
         IN  <<s[i]>> \o Pick(s, S \ {i})

SubLists(s, maxLen) ==
    {Pick(s, S) : S \in {T \in SUBSET (1..Len(s)) : Cardinality(T) <= maxLen}}

(***************************************************************************)
(* Scoring calls: compute_composite_fiducial_score, test_fiducial_list and *)
(* create_prep_mxs / create_meas_mxs on a list drawn from the candidate    *)
(* universe, with no cache, the cache built on the universe, or a cache    *)
(* built on only its first circuits.                                       *)
(***************************************************************************)
MaxListLen == 3
ShortCacheLen == 3

ScoreUniverse == list_all_circuits(<<"Gx", "Gy">>, 0, DefaultMaxFidLength)

BuildCache(m, role, fl) ==
    IF role = "prep" THEN create_prep_cache(m, fl, None)
    ELSE create_meas_cache(m, fl, None)

Unused == <<>>

InitScore ==
    /\ pc = "start"
    /\ model \in ScoreModelNames
    /\ prep_or_meas \in {"prep", "meas"}
    /\ fid_list \in SubLists(ScoreUniverse, MaxListLen)
    /\ args \in [score_func : {"all", "worst", "best"},
                 threshold : {Num(1000000)},
                 op_penalty : {Num(0), Rat(1, 10)},
                 l1_penalty : {Num(0), Num(1)}]
    /\ fid_cache \in {None,
                      BuildCache(Models[model], prep_or_meas, ScoreUniverse),
                      BuildCache(Models[model], prep_or_meas,
                                 SubSeq(ScoreUniverse, 1, ShortCacheLen))}
    /\ circuit_cache = Unused /\ weights = Unused /\ score = Unused
    /\ L1 = Unused /\ lessWeightOnly = Unused /\ scoreD = Unused
    /\ iIter = Unused /\ failCount = Unused /\ initialSolns = Unused
    /\ localSolns = Unused
    /\ ret = None
    /\ caller = NoCaller

ScoreCall ==
    /\ pc = "start"
    /\ pc' = "scored"
    /\ ret' = compute_composite_fiducial_score(
                Models[model], fid_list, prep_or_meas, args.score_func,
                args.threshold, args.op_penalty, args.l1_penalty, fid_cache)
    /\ UNCHANGED <<caller, model, prep_or_meas, fid_list, args, fid_cache, circuit_cache,
                   weights, score, L1, lessWeightOnly, scoreD, iIter, failCount,
                   initialSolns, localSolns>>

TestCall ==
    /\ pc = "start"
    /\ pc' = "tested"
    /\ ret' = test_fiducial_list(
                Models[model], fid_list, prep_or_meas, args.score_func,
                args.threshold, args.l1_penalty, args.op_penalty, fid_cache)
    /\ UNCHANGED <<caller, model, prep_or_meas, fid_list, args, fid_cache, circuit_cache,
                   weights, score, L1, lessWeightOnly, scoreD, iIter, failCount,
                   initialSolns, localSolns>>

MxsCall ==
    /\ pc = "start"
    /\ pc' = "mxs"
    /\ ret' = IF prep_or_meas = "prep"
              THEN create_prep_mxs(Models[model], fid_list, fid_cache)
              ELSE create_meas_mxs(Models[model], fid_list, fid_cache)
    /\ UNCHANGED <<caller, model, prep_or_meas, fid_list, args, fid_cache, circuit_cache,
                   weights, score, L1, lessWeightOnly, scoreD, iIter, failCount,
                   initialSolns, localSolns>>

NextScore == ScoreCall \/ TestCall \/ MxsCall

SpecScore == InitScore /\ [][NextScore]_vars

(***************************************************************************)
(* clean_fid_list.                                                         *)
(***************************************************************************)
RECURSIVE Reverse(_)
Reverse(s) == IF s = <<>> THEN <<>> ELSE Reverse(Tail(s)) \o <<Head(s)>>

RECURSIVE Filter(_, _)
Filter(s, keep) ==
    IF s = <<>> THEN <<>>
    ELSE (IF Head(keep) THEN <<Head(s)>> ELSE <<>>) \o Filter(Tail(s), Tail(keep))

\* the "remove identities" loop: every entry whose matrix is within
\* eq_thresh of the identity is deleted, except the empty circuit's
RECURSIVE DropIdentities(_, _, _)
DropIdentities(d, dim, eq_thresh_sq) ==
    IF d = <<>> THEN <<>>
    ELSE LET e == Head(d)
             rest == DropIdentities(Tail(d), dim, eq_thresh_sq)
         IN  IF e.key = "{}" THEN <<e>> \o rest
             ELSE IF WithinThresh(e.val, Identity(dim), eq_thresh_sq) THEN rest
             ELSE <<e>> \o rest

DedupLoop_keepall(unseen_circs, unique_circs, cache1, eq_thresh_sq) ==
    Reverse(unseen_circs)

\* the while loop over unseen_circs (kept reversed, popped from the end);
\* returns unique_circs
RECURSIVE DedupLoop(_, _, _, _)
DedupLoop(unseen_circs, unique_circs, cache1, eq_thresh_sq) ==
    IF unseen_circs = <<>> THEN unique_circs
    ELSE LET n == Len(unseen_circs)
             current_ckt == unseen_circs[n]
             current_ckt_PTM == DictGet(cache1, current_ckt)
             popped == SubSeq(unseen_circs, 1, n - 1)
             is_not_duplicate ==
                [i \in 1..Len(popped) |->
                    ~WithinThresh(DictGet(cache1, popped[i]), current_ckt_PTM,
                                  eq_thresh_sq)]
         IN  DedupLoop(Filter(popped, is_not_duplicate),
                       Append(unique_circs, current_ckt), cache1, eq_thresh_sq)

UnboundLocalError == [exc |-> "UnboundLocalError"]

\* returns [list |-> cleaned_availableFidList, cache |-> cleaned_circuit_cache_2]
\* or the exception raised: cleaned_circuit_cache_2 is only assigned inside
\* "if drop_duplicates"
clean_fid_list(m, cc, available_fid_list, drop_identities, drop_duplicates, eq_thresh_sq) ==
    LET cleaned_circuit_cache ==
            IF drop_identities THEN DropIdentities(cc, m.dim, eq_thresh_sq) ELSE cc
        cleaned_circuit_cache_1 == cleaned_circuit_cache
    IN  IF ~drop_duplicates THEN UnboundLocalError
        ELSE
        LET unique_circs ==
                DedupLoop(Reverse(DictKeys(cleaned_circuit_cache)), <<>>,
                          cleaned_circuit_cache_1, eq_thresh_sq)
            cleaned_circuit_cache_2 ==
                [i \in 1..Len(unique_circs) |->
                    [key |-> unique_circs[i],
                     val |-> DictGet(cleaned_circuit_cache_1, unique_circs[i])]]
            kept == [i \in 1..Len(available_fid_list) |->
                        HasKey(cleaned_circuit_cache_2, Str(available_fid_list[i]))]
        IN  [list |-> Filter(available_fid_list, kept),
             cache |-> cleaned_circuit_cache_2]

(***************************************************************************)
(* clean_fid_list calls: the cache is built by create_circuit_cache on a   *)
(* list of distinct circuits in any order.                                 *)
(***************************************************************************)
MaxCleanLen == 3

CleanPool ==
    {<<>>, <<"Gi">>, <<"Gx">>, <<"Gx", "Gx">>, <<"Gy", "Gx">>, <<"Gy", "Gy">>}

\* the lists of at most n distinct circuits of pool, in every order
RECURSIVE OrderedLists(_, _)
OrderedLists(pool, n) ==
    IF n = 0 THEN {<<>>}
    ELSE LET shorter == OrderedLists(pool, n - 1)
         IN  shorter \cup {Append(l, c) : l \in shorter, c \in pool}

DistinctLists(pool, n) ==
    {l \in OrderedLists(pool, n) : \A i, j \in 1..Len(l) : i # j => l[i] # l[j]}

InitClean ==
    /\ pc = "start"
    /\ model = "full"
    /\ fid_list \in DistinctLists(CleanPool, MaxCleanLen)
    /\ circuit_cache = create_circuit_cache(Models[model], fid_list)
    /\ args \in [drop_identities : BOOLEAN, drop_duplicates : BOOLEAN,
                 eq_thresh_sq : {1, 2, 3}]
    /\ prep_or_meas = Unused /\ fid_cache = Unused
    /\ weights = Unused /\ score = Unused
    /\ L1 = Unused /\ lessWeightOnly = Unused /\ scoreD = Unused
    /\ iIter = Unused /\ failCount = Unused /\ initialSolns = Unused
    /\ localSolns = Unused
    /\ ret = None
    /\ caller = NoCaller

CleanCall ==
    /\ pc = "start"
    /\ pc' = "cleaned"
    /\ ret' = clean_fid_list(Models[model], circuit_cache, fid_list,
                             args.drop_identities, args.drop_duplicates,
                             args.eq_thresh_sq)
    /\ UNCHANGED <<caller, model, prep_or_meas, fid_list, args, fid_cache, circuit_cache,
                   weights, score, L1, lessWeightOnly, scoreD, iIter, failCount,
                   initialSolns, localSolns>>

NextClean == CleanCall

SpecClean == InitClean /\ [][NextClean]_vars

(***************************************************************************)
(* Properties of clean_fid_list (checked under SpecClean).                 *)
(***************************************************************************)
\* C10: clean_fid_list never removes the empty circuit: whenever it is a
\* key of the input cache it is a key of the returned cache, for every
\* combination of the flags and every ordering of the cache
C10_EmptyCircuitKept ==
    (pc = "cleaned" /\ HasKey(circuit_cache, "{}") /\ ~IsExc(ret))
        => HasKey(ret.cache, "{}")

\* the cache the duplicate removal starts from (cleaned_circuit_cache_1)
BeforeDedup ==
    IF args.drop_identities
    THEN DropIdentities(circuit_cache, Models[model].dim, args.eq_thresh_sq)
    ELSE circuit_cache

\* entry i of BeforeDedup is a key of the returned cache
Survives(i) == HasKey(ret.cache, BeforeDedup[i].key)

\* the matrices of entries i and j of BeforeDedup are within eq_thresh
Near(i, j) == WithinThresh(BeforeDedup[i].val, BeforeDedup[j].val, args.eq_thresh_sq)

C12_ReturnsForEveryFlagCombination ==
    pc = "cleaned" =>
        /\ ~IsExc(ret)
        /\ ~args.drop_duplicates => ret.cache = BeforeDedup
        /\ ret.list = Filter(fid_list, [i \in 1..Len(fid_list) |->
                                           HasKey(ret.cache, Str(fid_list[i]))])

(***************************************************************************)
(* Properties of the scoring calls (checked under SpecScore).              *)
(***************************************************************************)
InList(c, l) == \E i \in 1..Len(l) : l[i] = c

\* the cache handed to the call was built on list l, and every circuit of
\* fid_list is drawn from l
CacheCovers(l) ==
    /\ fid_cache = BuildCache(Models[model], prep_or_meas, l)
    /\ \A i \in 1..Len(fid_list) : InList(fid_list[i], l)

DirectScore ==
    compute_composite_fiducial_score(
        Models[model], fid_list, prep_or_meas, args.score_func,
        args.threshold, args.op_penalty, args.l1_penalty, None)

\* C7: for every model and every circuit list drawn from the list the cache
\* was built on, compute_composite_fiducial_score with the cache returns the
\* same result as with fid_cache = None
C7_CachedScoreEqualsDirect ==
    (pc = "scored" /\ fid_cache # None
        /\ (CacheCovers(ScoreUniverse)
            \/ CacheCovers(SubSeq(ScoreUniverse, 1, ShortCacheLen))))
    => ret = DirectScore

\* a cache is supplied and lacks a (native object, circuit) key that the
\* requested list needs
MissingKey ==
    /\ fid_cache # None
    /\ \E k \in 1..Len(fid_cache.keys), i \in 1..Len(fid_list) :
          IF prep_or_meas = "prep"
          THEN <<fid_cache.keys[k], Str(fid_list[i])>> \notin DOMAIN fid_cache.vecs
          ELSE <<fid_cache.keys[k][1], fid_cache.keys[k][2], Str(fid_list[i])>>
                  \notin DOMAIN fid_cache.vecs

ScoreN ==
    compute_composite_fiducial_score(
        Models[model], fid_list, prep_or_meas, args.score_func,
        args.threshold, args.op_penalty, args.l1_penalty, fid_cache).score.N

C14_UnknownScoreFuncRaises ==
    (pc = "scored" /\ args.score_func \notin {"all", "worst"} /\ ret # KeyError)
        => ret = ValueError

(***************************************************************************)
(* _find_fiducials_integer_slack.                                          *)
(***************************************************************************)
AssertionError == [exc |-> "AssertionError"]

\* xor(*args): exactly one argument is truthy
xor(a, b) ==
    Cardinality({i \in 1..2 : Truthy(<<a, b>>[i])}) = 1

\* _scoring.list_score(input_array, score_func): 'all' sums the reciprocals
\* of the absolute values, 'worst' is the reciprocal of the smallest one;
\* 1/0 is inf
list_score(input_array, score_func) ==
    LET a == [i \in 1..Len(input_array) |-> Abs(input_array[i])]
    IN  IF \E i \in 1..Len(a) : a[i] = 0 THEN Inf
        ELSE IF score_func = "all" THEN SumRecip(a)
        ELSE Rat(1, Sort(a)[1])

\* the sub-matrix fidArray[:, wtsLoc]
ColumnsWhere(fidArray, wts) ==
    LET wtsLoc == {i \in 1..Len(wts) : wts[i] # 0}
    IN  [r \in 1..Len(fidArray) |-> Pick(fidArray[r], wtsLoc)]

\* the value compute_score(wts) returns and stores in scoreD[tuple(wts)]
compute_score(m, role, fl, a, wts) ==
    IF a.force_empty /\ Cardinality({i \in 1..Len(SubSeq(wts, 1, 1)) : wts[i] # 0}) # 1
    THEN a.force_empty_score
    ELSE
    LET fidArrayList == IF role = "prep" THEN create_prep_mxs(m, fl, None).mxs
                        ELSE create_meas_mxs(m, fl, None).mxs
        numFids == SumSeq(wts)
        scoreMx == ConcatColumns(m.dim,
                     [k \in 1..Len(fidArrayList) |-> ColumnsWhere(fidArrayList[k], wts)])
        scoreSqMx == Gram(scoreMx)
        sc == NumMul(list_score(Eigvalsh(scoreSqMx), a.score_func), Num(numFids))
    IN  IF NumLe(sc, Num(0)) \/ sc.inf THEN E10 ELSE sc

\* the i-th value yielded by _get_neighbors(bool_vec)
Flip(bool_vec, i) == [bool_vec EXCEPT ![i] = (bool_vec[i] + 1) % 2]

\* the list of the circuits whose weight is 1
Selected(fl, wts) == Pick(fl, {i \in 1..Len(wts) : wts[i] = 1})

\* MemoStore with cache_score=False
MemoStore_skip(memo, wts, sc) == memo

\* MemoStore keeping only the new entry
MemoStore_forget(memo, wts, sc) == (wts :> sc)

\* "scoreD[tuple(wts)] = score" in compute_score
MemoStore(memo, wts, sc) == (wts :> sc) @@ memo

\* "tuple(neighbor) not in scoreD_keys" decides whether the neighbour is
\* scored or read from the memo table
Known(neighbor, scoreD_keys) == neighbor \in scoreD_keys

\* BetterNeighbor without the restriction to lighter vectors
BetterNeighbor_anyweight(neighborScore, neighborL1, st) ==
    NumLe(neighborScore, st.score)

\* "Move if we've found better position; if we've relaxed, we only move
\* when L1 is improved"
BetterNeighbor(neighborScore, neighborL1, st) ==
    /\ NumLe(neighborScore, st.score)
    /\ (neighborL1 < st.L1 \/ ~st.lessWeightOnly)

\* the first scan of one round, from neighbour i on: the neighbours are the
\* single flips of the round's starting vector orig, while st (weights,
\* score, L1, scoreD, found) is updated as the scan moves; st.scored lists
\* the vectors compute_score was called on
RECURSIVE Scan(_, _, _, _, _, _, _)
Scan(m, role, fl, a, orig, i, st) ==
    IF i > Len(orig) THEN st
    ELSE
    LET neighbor == Flip(orig, i)
        known == Known(neighbor, DOMAIN st.scoreD)
        calls == IF known THEN st.scored ELSE Append(st.scored, neighbor)
        neighborL1 == SumSeq(neighbor)
        neighborScore == IF known THEN st.scoreD[neighbor]
                         ELSE compute_score(m, role, fl, a, neighbor)
        memo == IF known THEN st.scoreD
                ELSE MemoStore(st.scoreD, neighbor, neighborScore)
        move == BetterNeighbor(neighborScore, neighborL1, st)
    IN  Scan(m, role, fl, a, orig, i + 1,
             IF move
             THEN [st EXCEPT !.weights = neighbor, !.score = neighborScore,
                             !.L1 = neighborL1, !.found = TRUE, !.scoreD = memo,
                             !.scored = calls]
             ELSE [st EXCEPT !.scoreD = memo, !.scored = calls])

\* the slack added to the score when no neighbour was better
Slack(a, sc) ==
    IF Truthy(a.fixed_slack) THEN NumAdd(sc, a.fixed_slack)
    ELSE NumMul(sc, a.slack_frac)

\* RescanMove leaving the relaxed score in place
RescanMove_keepscore(st, neighbor) ==
    [st EXCEPT !.weights = neighbor, !.L1 = SumSeq(neighbor), !.found = TRUE]

\* the re-scan moves to neighbor: "weights, score, L1 = (neighbor,
\* scoreD[tuple(neighbor)], sum(neighbor))"
RescanMove(st, neighbor) ==
    [st EXCEPT !.weights = neighbor, !.score = st.scoreD[neighbor],
               !.L1 = SumSeq(neighbor), !.found = TRUE]

\* the re-scan after relaxing, from neighbour i on; a neighbour missing from
\* scoreD raises KeyError
RECURSIVE Rescan(_, _, _)
Rescan(orig, i, st) ==
    IF i > Len(orig) \/ st.exc # None THEN st
    ELSE
    LET neighbor == Flip(orig, i)
    IN  IF ~(SumSeq(neighbor) < st.L1) THEN Rescan(orig, i + 1, st)
        ELSE IF neighbor \notin DOMAIN st.scoreD
             THEN [st EXCEPT !.exc = KeyError]
        ELSE IF NumLt(st.scoreD[neighbor], st.score)
             THEN Rescan(orig, i + 1, RescanMove(st, neighbor))
        ELSE Rescan(orig, i + 1, st)

\* the relaxation: from now on only lighter neighbours, the score raised
\* by the slack (which must be positive), then the re-scan
Relax(a, st) ==
    IF ~NumLt(Num(0), Slack(a, st.score))
    THEN [st EXCEPT !.lessWeightOnly = TRUE, !.exc = AssertionError]
    ELSE Rescan(st.weights, 1,
                [st EXCEPT !.lessWeightOnly = TRUE,
                           !.score = NumAdd(st.score, Slack(a, st.score))])

\* what follows the first scan: relax when it found no better neighbour
AfterScan(a, st) == IF st.found THEN st ELSE Relax(a, st)

\* one pass of the body of "for iIter in range(max_iter)"; in the result,
\* exc is the exception raised (or None) and found = FALSE means "break"
Round(m, role, fl, a, st0) ==
    AfterScan(a, Scan(m, role, fl, a, st0.weights, 1, [st0 EXCEPT !.found = FALSE]))

(***************************************************************************)
(* Selector calls.  The candidate lists: one that is informationally       *)
(* complete and starts with the empty circuit, one with the empty circuit  *)
(* in the middle, one that is not complete, one without the empty circuit. *)
(***************************************************************************)
MaxIter == 2

\* the default of max_iter
DefaultMaxIter == 100

\* the max_iter values of the calls: small ones, and the default for the
\* calls that start from the default weights
MaxIters(initial_weights) ==
    (0..MaxIter) \cup (IF initial_weights = None THEN {DefaultMaxIter} ELSE {})

SelLists ==
    {<<<<>>, <<"Gx">>, <<"Gx", "Gy">>>>,
     <<<<"Gx">>, <<>>, <<"Gx", "Gy">>>>,
     <<<<>>, <<"Gx", "Gy">>>>,
     <<<<"Gx">>, <<"Gx", "Gy">>>>}

\* (fixed_slack, slack_frac) as passed by the caller
SlackSettings ==
    {<<None, None>>, <<Num(0), None>>, <<Num(1), None>>,
     <<None, Rat(1, 2)>>, <<Num(0), Rat(1, 2)>>, <<Num(1), Rat(1, 2)>>}

\* (force_empty, force_empty_score)
ForceSettings == {<<FALSE, E100>>, <<TRUE, E100>>, <<TRUE, Num(1)>>}

InitSlack ==
    /\ pc = "start"
    /\ model = "full"
    /\ prep_or_meas \in {"prep", "meas"}
    /\ fid_list \in {l \in SelLists : l[1] = <<>>}
    /\ \E sl \in SlackSettings, fe \in ForceSettings :
       \E iw \in {None} \cup {[wts |-> v] : v \in [1..Len(fid_list) -> {0, 1}]} :
       \E ra \in BOOLEAN, th \in {Num(1000000), Num(1)}, mi \in MaxIters(iw) :
          args = [alg |-> "slack", initial_weights |-> iw, score_func |-> "all",
                  max_iter |-> mi, fixed_slack |-> sl[1], slack_frac |-> sl[2],
                  return_all |-> ra, force_empty |-> fe[1],
                  force_empty_score |-> fe[2], fixed_num |-> None,
                  threshold |-> th]
    /\ fid_cache = Unused /\ circuit_cache = Unused
    /\ weights = Unused /\ score = Unused /\ L1 = Unused
    /\ lessWeightOnly = Unused /\ scoreD = Unused /\ iIter = Unused
    /\ failCount = Unused /\ initialSolns = Unused /\ localSolns = Unused
    /\ ret = None
    /\ caller = NoCaller

(***************************************************************************)
(* fixed_num mode: build_bitvec_mx and the exhaustive scan.                *)
(***************************************************************************)
RecursionError == [exc |-> "RecursionError"]
IndexError == [exc |-> "IndexError"]

\* the depth of nested build_mx calls at which Python raises RecursionError
\* (scaled down from the interpreter's limit)
RecursionLimit == 12

\* scipy.special.binom(n, k) for integers 0 <= k <= n
RECURSIVE Binom(_, _)
Binom(n, k) ==
    IF k = 0 \/ k = n THEN 1 ELSE Binom(n - 1, k - 1) + Binom(n - 1, k)

\* build_mx(previous_bit_locs, i, counter) inside build_bitvec_mx(n, k): acc
\* holds the rows set so far (counter is their number) and the exception
\* raised, if any; BuildLoop is its for loop from bit_loc on
RECURSIVE build_mx(_, _, _, _, _, _)
RECURSIVE BuildLoop(_, _, _, _, _, _, _)
build_mx(n, k, previous_bit_locs, i, acc, depth) ==
    IF depth > RecursionLimit THEN [acc EXCEPT !.exc = RecursionError]
    ELSE IF i = 0
    THEN IF \/ Len(acc.rows) >= Binom(n, k)
            \/ \E p \in 1..Len(previous_bit_locs) : previous_bit_locs[p] >= n
         THEN [acc EXCEPT !.exc = IndexError]
         ELSE [acc EXCEPT !.rows = Append(@,
                  [j \in 1..n |-> IF InList(j - 1, previous_bit_locs) THEN 1 ELSE 0])]
    ELSE BuildLoop(n, k, previous_bit_locs, i,
                   1 + previous_bit_locs[Len(previous_bit_locs)], acc, depth)

BuildLoop(n, k, previous_bit_locs, i, bit_loc, acc, depth) ==
    IF acc.exc # None \/ bit_loc >= (n - k) + (k - i) + 1 THEN acc
    ELSE BuildLoop(n, k, previous_bit_locs, i, bit_loc + 1,
                   build_mx(n, k, Append(previous_bit_locs, bit_loc), i - 1, acc,
                            depth + 1),
                   depth)

\* the loop "for bit_loc_0 in range(diff + 1)" of build_bitvec_mx
RECURSIVE BuildTop(_, _, _, _)
BuildTop(n, k, bit_loc_0, acc) ==
    IF acc.exc # None \/ bit_loc_0 >= (n - k) + 1 THEN acc
    ELSE BuildTop(n, k, bit_loc_0 + 1, build_mx(n, k, <<bit_loc_0>>, k - 1, acc, 1))

\* build_bitvec_mx(n, k): [rows, exc]
build_bitvec_mx(n, k) == BuildTop(n, k, 0, [rows |-> <<>>, exc |-> None])

\* Direct calls build_bitvec_mx(n, k) with 0 <= k <= n <= MaxN.
MaxN == 9

InitBitvec ==
    /\ pc = "start"
    /\ \E n \in 0..MaxN : \E k \in 0..n : args = [alg |-> "bitvec", n |-> n, k |-> k]
    /\ model = Unused /\ prep_or_meas = Unused /\ fid_list = Unused
    /\ fid_cache = Unused /\ circuit_cache = Unused
    /\ weights = Unused /\ score = Unused /\ L1 = Unused
    /\ lessWeightOnly = Unused /\ scoreD = Unused /\ iIter = Unused
    /\ failCount = Unused /\ initialSolns = Unused /\ localSolns = Unused
    /\ ret = None
    /\ caller = NoCaller

\* the call returns the matrix b.rows or raises b.exc
BitvecReturn(b) ==
    IF b.exc # None THEN pc' = "raised" /\ ret' = b.exc
    ELSE pc' = "done" /\ ret' = [bitVecMx |-> b.rows]

BitvecCall ==
    /\ pc = "start" /\ args.alg = "bitvec"
    /\ BitvecReturn(build_bitvec_mx(args.n, args.k))
    /\ UNCHANGED <<caller, model, prep_or_meas, fid_list, args, fid_cache,
                   circuit_cache, weights, score, L1, lessWeightOnly, scoreD, iIter,
                   failCount, initialSolns, localSolns>>

NextBitvec == BitvecCall

SpecBitvec == InitBitvec /\ [][NextBitvec]_vars

\* the rows scanned in fixed_num mode: [rows, exc]
bitVecMat(nFids, fixed_num, force_empty) ==
    IF force_empty
    THEN LET b == build_bitvec_mx(nFids - 1, fixed_num - 1)
         IN  [b EXCEPT !.rows = [r \in 1..Len(b.rows) |-> <<1>> \o b.rows[r]]]
    ELSE build_bitvec_mx(nFids, fixed_num)

\* abs(temp_score - best_score) < 1e-8: the scores are infinite, 1e10 or
\* rationals whose differences are 0 or far above 1e-8
WithinPrecision(temp_score, best_score) ==
    ~temp_score.inf /\ ~best_score.inf /\ temp_score = best_score

\* FixedStep keeping the first of the vectors whose scores tie
FixedStep_first(fl, wts, temp_score, st) ==
    LET scored == [st EXCEPT !.scoreD = (wts :> temp_score) @@ @]
    IN  IF WithinPrecision(temp_score, st.best_score) THEN scored
        ELSE IF NumLt(temp_score, st.best_score)
        THEN [scored EXCEPT !.best_score = temp_score, !.best_weights = wts]
        ELSE scored

\* one pass of "for weights in bitVecMat": st is [best_score, best_weights,
\* scoreD] and temp_score the score of wts
FixedStep(fl, wts, temp_score, st) ==
    LET scored == [st EXCEPT !.scoreD = (wts :> temp_score) @@ @]
    IN  IF WithinPrecision(temp_score, st.best_score)
        THEN IF TotalOps(Selected(fl, wts)) < TotalOps(Selected(fl, st.best_weights))
             THEN [scored EXCEPT !.best_score = temp_score, !.best_weights = wts]
             ELSE scored
        ELSE IF NumLt(temp_score, st.best_score)
        THEN [scored EXCEPT !.best_score = temp_score, !.best_weights = wts]
        ELSE scored

RECURSIVE FixedScan(_, _, _, _, _, _)
FixedScan(m, role, fl, a, rows, st) ==
    IF rows = <<>> THEN st
    ELSE FixedScan(m, role, fl, a, Tail(rows),
                   FixedStep(fl, Head(rows), compute_score(m, role, fl, a, Head(rows)), st))

\* the fixed_num branch: the exception of build_bitvec_mx propagates,
\* otherwise the best row is returned
SlackFixedNum(mat) ==
    IF mat.exc # None
    THEN /\ pc' = "raised" /\ ret' = mat.exc
         /\ lessWeightOnly' = FALSE /\ scoreD' = EmptyDict
         /\ UNCHANGED <<weights, score, L1, iIter>>
    ELSE LET st == FixedScan(Models[model], prep_or_meas, fid_list, args, mat.rows,
                             [best_score |-> Inf, best_weights |-> <<>>,
                              scoreD |-> EmptyDict])
         IN  /\ pc' = "done"
             /\ weights' = st.best_weights /\ score' = st.best_score
             /\ scoreD' = st.scoreD /\ lessWeightOnly' = FALSE
             /\ ret' = [list |-> Selected(fid_list, st.best_weights),
                        rest |-> IF args.return_all
                                 THEN [weights |-> st.best_weights, scoreD |-> st.scoreD]
                                 ELSE None,
                        printed |-> ""]
             /\ UNCHANGED <<L1, iIter>>

\* the lists of fixed_num mode: SelLists and one with two circuits of the
\* same matrix and different lengths
FixedLists == SelLists \cup {<<<<"Gx", "Gx">>, <<"Gx">>, <<>>>>}

\* a call in fixed_num mode: [num |-> k] is fixed_num = k
InitSlackFixed ==
    /\ pc = "start"
    /\ model = "full"
    /\ prep_or_meas \in {"prep", "meas"}
    /\ fid_list \in FixedLists
    /\ \E fe \in BOOLEAN, ra \in BOOLEAN, fn \in 1..Len(fid_list) :
       \E sl \in {<<Num(1), None>>, <<None, Rat(1, 2)>>} :
          args = [alg |-> "slack", initial_weights |-> None, score_func |-> "all",
                  max_iter |-> MaxIter, fixed_slack |-> sl[1], slack_frac |-> sl[2],
                  return_all |-> ra, force_empty |-> fe,
                  force_empty_score |-> E100, fixed_num |-> [num |-> fn],
                  threshold |-> Num(1000000)]
    /\ fid_cache = Unused /\ circuit_cache = Unused
    /\ weights = Unused /\ score = Unused /\ L1 = Unused
    /\ lessWeightOnly = Unused /\ scoreD = Unused /\ iIter = Unused
    /\ failCount = Unused /\ initialSolns = Unused /\ localSolns = Unused
    /\ ret = None
    /\ caller = NoCaller

\* weights = _np.array([1 if x else 0 for x in initial_weights]), or all ones
InitialWeights(initial_weights, nFids) ==
    IF initial_weights # None
    THEN [i \in 1..Len(initial_weights.wts) |-> IF initial_weights.wts[i] # 0 THEN 1 ELSE 0]
    ELSE [i \in 1..nFids |-> 1]

\* the start of the search, once the argument check and the initial test
\* have passed: w0 is the starting vector and s0 its score
SlackBegin(w0, s0) ==
    /\ pc' = "loop" /\ ret' = None
    /\ weights' = w0
    /\ lessWeightOnly' = (args.initial_weights = None)
    /\ scoreD' = (w0 :> s0)
    /\ score' = s0
    /\ L1' = SumSeq(w0)
    /\ iIter' = 0

\* the initial test's outcome: raise, abort with None, or start the search
SlackAfterTest(initial_test, w0) ==
    IF IsExc(initial_test)
    THEN /\ pc' = "raised" /\ ret' = initial_test
         /\ UNCHANGED <<weights, score, L1, lessWeightOnly, scoreD, iIter>>
    ELSE IF ~initial_test.testResult
    THEN /\ pc' = "done" /\ ret' = None
         /\ UNCHANGED <<weights, score, L1, lessWeightOnly, scoreD, iIter>>
    ELSE IF args.fixed_num # None
    THEN SlackFixedNum(bitVecMat(Len(fid_list), args.fixed_num.num, args.force_empty))
    ELSE SlackBegin(w0, compute_score(Models[model], prep_or_meas, fid_list, args, w0))

\* from the call up to the first compute_score(weights)
SlackStart ==
    /\ pc = "start" /\ args.alg = "slack"
    /\ IF ~xor(args.fixed_slack, args.slack_frac)
       THEN /\ pc' = "raised" /\ ret' = ValueError
            /\ UNCHANGED <<weights, score, L1, lessWeightOnly, scoreD, iIter>>
       ELSE SlackAfterTest(
                test_fiducial_list(Models[model], fid_list, prep_or_meas, args.score_func,
                                   args.threshold, Num(0), Num(0), None),
                InitialWeights(args.initial_weights, Len(fid_list)))
    /\ UNCHANGED <<caller, model, prep_or_meas, fid_list, args, fid_cache, circuit_cache,
                   failCount, initialSolns, localSolns>>

\* SlackAfterRound going on after a round that found no neighbour
SlackAfterRound_nobreak(st) ==
    /\ weights' = st.weights /\ score' = st.score /\ L1' = st.L1
    /\ lessWeightOnly' = st.lessWeightOnly /\ scoreD' = st.scoreD
    /\ IF st.exc # None
       THEN pc' = "raised" /\ ret' = st.exc /\ iIter' = iIter
       ELSE pc' = "loop" /\ ret' = ret /\ iIter' = iIter + 1

\* the state a round leaves: the exception propagates, "break" leaves the
\* loop, otherwise the next iteration follows
SlackAfterRound(st) ==
    /\ weights' = st.weights /\ score' = st.score /\ L1' = st.L1
    /\ lessWeightOnly' = st.lessWeightOnly /\ scoreD' = st.scoreD
    /\ IF st.exc # None
       THEN pc' = "raised" /\ ret' = st.exc /\ iIter' = iIter
       ELSE IF ~st.found
       THEN pc' = "break" /\ ret' = ret /\ iIter' = iIter
       ELSE pc' = "loop" /\ ret' = ret /\ iIter' = iIter + 1

\* one iteration of the main loop
SlackRound ==
    /\ pc = "loop" /\ args.alg = "slack" /\ iIter < args.max_iter
    /\ SlackAfterRound(Round(Models[model], prep_or_meas, fid_list, args,
                             [weights |-> weights, score |-> score, L1 |-> L1,
                              lessWeightOnly |-> lessWeightOnly, scoreD |-> scoreD,
                              found |-> FALSE, exc |-> None, scored |-> <<>>]))
    /\ UNCHANGED <<caller, model, prep_or_meas, fid_list, args, fid_cache, circuit_cache,
                   failCount, initialSolns, localSolns>>

\* the line printed about the final set: the verdict of initial_test
FinalVerdict(initial_test) ==
    IF initial_test.testResult THEN "Final fiducial set succeeds."
    ELSE "WARNING: Final fiducial set FAILS."

\* after the loop: build goodFidList, print the verdict of initial_test and
\* return
SlackFinish ==
    /\ pc \in {"break", "loop"} /\ args.alg = "slack"
    /\ pc = "break" \/ iIter >= args.max_iter
    /\ ret' = [list |-> Selected(fid_list, weights),
               rest |-> IF args.return_all
                        THEN [weights |-> weights, scoreD |-> scoreD]
                        ELSE None,
               printed |-> FinalVerdict(
                   test_fiducial_list(Models[model], fid_list, prep_or_meas,
                                      args.score_func, args.threshold,
                                      Num(0), Num(0), None))]
    /\ pc' = "done"
    /\ UNCHANGED <<caller, model, prep_or_meas, fid_list, args, fid_cache, circuit_cache,
                   weights, score, L1, lessWeightOnly, scoreD, iIter, failCount,
                   initialSolns, localSolns>>

(***************************************************************************)
(* _find_fiducials_grasp.  The grasp module's construction, restricted     *)
(* candidate list, neighbourhood and local search follow the description   *)
(* of the GRASP selector; a seed stands for the sequence of draws the      *)
(* generator built from it produces.                                       *)
(***************************************************************************)
\* ScoreFn taking its l1_penalty from the call's argument
ScoreFn_l1(m, role, fl, a, cache, wts, l1_penalty) ==
    LET r == compute_composite_fiducial_score(m, Selected(fl, wts), role, a.score_func,
                                              a.threshold, a.op_penalty, a.l1_penalty,
                                              cache)
    IN  IF IsExc(r) THEN r ELSE r.score

\* score_fn / final_score_fn: the composite score of a solution (a weight
\* vector over fids_list), or the exception raised
ScoreFn(m, role, fl, a, cache, wts, l1_penalty) ==
    LET r == compute_composite_fiducial_score(m, Selected(fl, wts), role, a.score_func,
                                              a.threshold, a.op_penalty, l1_penalty, cache)
    IN  IF IsExc(r) THEN r ELSE r.score

\* score <= feasibleThreshold = CompositeScore(-dimRho, threshold, dimRho)
Feasible(m, a, sc) == ~CompositeLt(CompositeScore(-m.dim, a.threshold, m.dim), sc)

\* min / max of a list of composite scores, and the largest of a list of
\* numbers
CompositeMin(s) == s[CHOOSE i \in 1..Len(s) : \A j \in 1..Len(s) : ~CompositeLt(s[j], s[i])]
CompositeMax(s) == s[CHOOSE i \in 1..Len(s) : \A j \in 1..Len(s) : ~CompositeLt(s[i], s[j])]
NumMax(s) == s[CHOOSE i \in 1..Len(s) : \A j \in 1..Len(s) : ~NumLt(s[i], s[j])]

\* _scoring.filter_composite_rcl(candidate_scores, alpha): the indices of
\* the candidates whose score is within the band alpha spans between the
\* best and the worst score
filter_composite_rcl(candidate_scores, alpha) ==
    LET maxScore == CompositeMax(candidate_scores)
        minScore == CompositeMin(candidate_scores)
        p == alpha.n
        q == alpha.d
        minors == [i \in 1..Len(candidate_scores) |-> candidate_scores[i].minor]
        bandMinor == NumAdd(NumMul(minScore.minor, Rat(q - p, q)),
                            NumMul(maxScore.minor, Rat(p, q)))
        thrMajor == IF maxScore.major = minScore.major THEN q * maxScore.major
                    ELSE (q - p) * minScore.major + p * maxScore.major
        thrMinor == IF maxScore.major = minScore.major THEN bandMinor
                    ELSE NumMax(minors)
        Within(sc) == \/ q * sc.major < thrMajor
                      \/ q * sc.major = thrMajor /\ NumLe(sc.minor, thrMinor)
    IN  Pick([i \in 1..Len(candidate_scores) |-> i],
             {i \in 1..Len(candidate_scores) : Within(candidate_scores[i])})

\* _grasp.neighboring_weight_vectors(weights, forced_weights): the single
\* flips of the coordinates that are not forced
neighboring_weight_vectors(wts, forced_weights) ==
    LET free == Pick([i \in 1..Len(wts) |-> i], {i \in 1..Len(wts) : forced_weights[i] = 0})
    IN  [k \in 1..Len(free) |-> [wts EXCEPT ![free[k]] = 1 - wts[free[k]]]]

\* the candidates a construction step may add: the coordinates still 0
CandidateIdxs(wts) == Pick([i \in 1..Len(wts) |-> i], {i \in 1..Len(wts) : wts[i] = 0})

\* Chosen ignoring the seed
Chosen_unseeded(rclIdxs, seed, k) == {rclIdxs[c] : c \in 1..Len(rclIdxs)}

\* the entries of the restricted candidate list a draw may select: any of
\* them without a seed, the one the k-th draw of the seed's generator picks
\* otherwise
Chosen(rclIdxs, seed, k) ==
    IF seed = None THEN {rclIdxs[c] : c \in 1..Len(rclIdxs)}
    ELSE {rclIdxs[(seed.draws[k] % Len(rclIdxs)) + 1]}

\* greedy randomized construction from wts: add a candidate drawn from the
\* restricted candidate list until the solution is feasible.  Returns the
\* set of possible outcomes, each [wts |-> solution] or the exception raised
RECURSIVE Construct(_, _, _, _, _, _, _, _)
\* one step, given the score of wts, the candidates and their scores
ConstructStep(m, role, fl, a, cache, wts, seed, k, cur, candidateIdxs, candidateScores) ==
    IF IsExc(cur) THEN {cur}
    ELSE IF Feasible(m, a, cur) THEN {[wts |-> wts]}
    ELSE IF candidateIdxs = <<>> THEN {ValueError}
    ELSE IF \E c \in 1..Len(candidateScores) : IsExc(candidateScores[c])
         THEN {candidateScores[c] : c \in {x \in 1..Len(candidateScores) :
                                             IsExc(candidateScores[x])}}
    ELSE IF filter_composite_rcl(candidateScores, a.alpha) = <<>> THEN {AssertionError}
    ELSE UNION {Construct(m, role, fl, a, cache, [wts EXCEPT ![candidateIdxs[c]] = 1],
                          seed, k + 1) :
                   c \in Chosen(filter_composite_rcl(candidateScores, a.alpha), seed, k)}

Construct(m, role, fl, a, cache, wts, seed, k) ==
    ConstructStep(m, role, fl, a, cache, wts, seed, k,
                  ScoreFn(m, role, fl, a, cache, wts, Num(0)),
                  CandidateIdxs(wts),
                  [c \in 1..Len(CandidateIdxs(wts)) |->
                      ScoreFn(m, role, fl, a, cache,
                              [wts EXCEPT ![CandidateIdxs(wts)[c]] = 1], Num(0))])

\* local search: move to the first feasible neighbour that scores strictly
\* better, until there is none
RECURSIVE LocalSearch(_, _, _, _, _, _, _)
\* one step, given the score of wts, its neighbours and their scores
LocalStep(m, role, fl, a, cache, forced_weights, wts, cur, nbs, scs) ==
    LET better == {k \in 1..Len(nbs) : /\ Feasible(m, a, scs[k])
                                       /\ CompositeLt(scs[k], cur)}
    IN  IF better = {} THEN wts
        ELSE LocalSearch(m, role, fl, a, cache, forced_weights,
                         nbs[CHOOSE k \in better : \A j \in better : k <= j])

LocalSearch(m, role, fl, a, cache, forced_weights, wts) ==
    LocalStep(m, role, fl, a, cache, forced_weights, wts,
              ScoreFn(m, role, fl, a, cache, wts, Num(0)),
              neighboring_weight_vectors(wts, forced_weights),
              [k \in 1..Len(neighboring_weight_vectors(wts, forced_weights)) |->
                  ScoreFn(m, role, fl, a, cache,
                          neighboring_weight_vectors(wts, forced_weights)[k], Num(0))])

\* _grasp.run_grasp_iteration(..., seed): the possible results, each
\* [initial, local] or the exception raised
run_grasp_iteration(m, role, fl, a, cache, initial_elements, seed) ==
    {IF IsExc(c) THEN c
     ELSE [initial |-> Selected(fl, c.wts),
           local |-> Selected(fl, LocalSearch(m, role, fl, a, cache,
                                              initial_elements, c.wts))] :
        c \in Construct(m, role, fl, a, cache, initial_elements, seed, 1)}

MaxIterations == 2
MaxDraws == 3
DrawRange == 3

\* the seeds a caller passes: None, or a seed (given by its draws)
Seeds == {None, [draws |-> [k \in 1..MaxDraws |-> k % DrawRange]]}

\* (threshold, l1_penalty, return_all, with a cache, op_penalty): every
\* combination under the default threshold, a threshold no solution meets,
\* one that some solutions meet and the complete list does not, and a
\* penalty on operations
GraspSettings ==
    ({Num(1000000)} \X {Num(0), Num(1)} \X BOOLEAN \X BOOLEAN \X {Num(0)})
        \cup {<<Num(1), Num(0), FALSE, FALSE, Num(0)>>,
              <<Num(3), Num(0), TRUE, FALSE, Num(0)>>,
              <<Num(1000000), Num(1), TRUE, FALSE, Rat(1, 10)>>}

\* the lists of the GRASP calls: SelLists and one with two circuits of the
\* same matrix and different lengths
GraspLists == SelLists \cup {<<<<>>, <<"Gx", "Gx", "Gx">>, <<"Gx">>>>}

InitGrasp ==
    /\ pc = "start"
    /\ model = "full"
    /\ prep_or_meas \in {"prep", "meas"}
    /\ fid_list \in GraspLists
    /\ \E al \in {Num(0), Num(1)}, it \in 0..MaxIterations, fe \in BOOLEAN :
       \E sd \in Seeds, gs \in GraspSettings :
          /\ args = [alg |-> "grasp", alpha |-> al, iterations |-> it,
                     score_func |-> "all", op_penalty |-> gs[5], l1_penalty |-> gs[2],
                     return_all |-> gs[3], force_empty |-> fe, threshold |-> gs[1],
                     seed |-> sd]
          /\ fid_cache = IF gs[4] THEN BuildCache(Models[model], prep_or_meas, fid_list)
                         ELSE None
    /\ circuit_cache = Unused
    /\ weights = Unused /\ score = Unused /\ L1 = Unused
    /\ lessWeightOnly = Unused /\ scoreD = Unused /\ iIter = Unused
    /\ failCount = Unused /\ initialSolns = Unused /\ localSolns = Unused
    /\ ret = None
    /\ caller = NoCaller

NoSolution_flat(return_all) == None

\* the value the selector returns when the complete list fails the test
NoSolution(return_all) ==
    IF return_all THEN [best |-> None, initialSolns |-> None, localSolns |-> None]
    ELSE None

\* the index fidsLens.index(0) of the first zero-length circuit
FirstZeroLen(fl) ==
    CHOOSE i \in 1..Len(fl) : Len(fl[i]) = 0 /\ \A j \in 1..(i - 1) : Len(fl[j]) # 0

\* initialWeights with nothing forced
initialWeights_unforced(fl, force_empty) == [i \in 1..Len(fl) |-> 0]

\* initialWeights: all zeros, and 1 at the first zero-length circuit when
\* force_empty is set
initialWeights(fl, force_empty) ==
    [i \in 1..Len(fl) |-> IF force_empty /\ i = FirstZeroLen(fl) THEN 1 ELSE 0]

\* the initial test's outcome: raise, abort with no solution, or set up
\* initialWeights (kept in weights) and enter the restart loop
GraspAfterTest(initial_test) ==
    IF IsExc(initial_test)
    THEN /\ pc' = "raised" /\ ret' = initial_test
         /\ UNCHANGED <<weights, iIter, failCount, initialSolns, localSolns>>
    ELSE IF ~initial_test.testResult
    THEN /\ pc' = "done" /\ ret' = NoSolution(args.return_all)
         /\ UNCHANGED <<weights, iIter, failCount, initialSolns, localSolns>>
    ELSE IF args.force_empty /\ ~\E i \in 1..Len(fid_list) : Len(fid_list[i]) = 0
    THEN /\ pc' = "raised" /\ ret' = ValueError
         /\ UNCHANGED <<weights, iIter, failCount, initialSolns, localSolns>>
    ELSE /\ pc' = "iter" /\ ret' = None
         /\ weights' = initialWeights(fid_list, args.force_empty)
         /\ iIter' = 0 /\ failCount' = 0
         /\ initialSolns' = <<>> /\ localSolns' = <<>>

\* from the call up to the restart loop
GraspStart ==
    /\ pc = "start" /\ args.alg = "grasp"
    /\ IF prep_or_meas \notin {"prep", "meas"}
       THEN /\ pc' = "raised" /\ ret' = ValueError
            /\ UNCHANGED <<weights, iIter, failCount, initialSolns, localSolns>>
       ELSE GraspAfterTest(
                test_fiducial_list(Models[model], fid_list, prep_or_meas, args.score_func,
                                   args.threshold, Num(0), Num(0), fid_cache))
    /\ UNCHANGED <<caller, model, prep_or_meas, fid_list, args, fid_cache, circuit_cache,
                   score, L1, lessWeightOnly, scoreD>>

\* GraspAfterAttempt giving up one failure later
GraspAfterAttempt_eleven(iterSolns) ==
    IF IsExc(iterSolns)
    THEN /\ UNCHANGED <<initialSolns, localSolns, iIter>>
         /\ failCount' = failCount + 1
         /\ IF failCount + 1 = 11
            THEN pc' = "raised" /\ ret' = iterSolns
            ELSE pc' = "iter" /\ ret' = ret
    ELSE /\ initialSolns' = Append(initialSolns, iterSolns.initial)
         /\ localSolns' = Append(localSolns, iterSolns.local)
         /\ iIter' = iIter + 1 /\ failCount' = 0
         /\ pc' = "iter" /\ ret' = ret

\* what an attempt leaves: a failure counts (the 10th propagates), a success
\* appends its two solutions and ends the iteration
GraspAfterAttempt(iterSolns) ==
    IF IsExc(iterSolns)
    THEN /\ UNCHANGED <<initialSolns, localSolns, iIter>>
         /\ failCount' = failCount + 1
         /\ IF failCount + 1 = 10
            THEN pc' = "raised" /\ ret' = iterSolns
            ELSE pc' = "iter" /\ ret' = ret
    ELSE /\ initialSolns' = Append(initialSolns, iterSolns.initial)
         /\ localSolns' = Append(localSolns, iterSolns.local)
         /\ iIter' = iIter + 1 /\ failCount' = 0
         /\ pc' = "iter" /\ ret' = ret

\* the seed argument of the run_grasp_iteration call of attempt number
\* fails of restart number iteration: "seed=seed"
AttemptSeed(seed, iteration, fails) == seed

\* one pass of "while not success and failCount < 10": an attempt of the
\* current iteration
GraspAttempt ==
    /\ pc = "iter" /\ args.alg = "grasp" /\ iIter < args.iterations
    /\ \E iterSolns \in run_grasp_iteration(Models[model], prep_or_meas, fid_list, args,
                                            fid_cache, weights,
                                            AttemptSeed(args.seed, iIter, failCount)) :
          GraspAfterAttempt(iterSolns)
    /\ UNCHANGED <<caller, model, prep_or_meas, fid_list, args, fid_cache, circuit_cache,
                   weights, score, L1, lessWeightOnly, scoreD>>

\* numpy.argmin over a list of composite scores: the first smallest
ArgMin(s) ==
    CHOOSE i \in 1..Len(s) : /\ \A j \in 1..Len(s) : ~CompositeLt(s[j], s[i])
                             /\ \A j \in 1..(i - 1) : CompositeLt(s[i], s[j])

\* the selector's result given the final scores of the local solutions
\* (argmin of no scores raises ValueError)
GraspReturn(finalScores) ==
    IF localSolns = <<>>
    THEN pc' = "raised" /\ ret' = ValueError
    ELSE /\ pc' = "done"
         /\ ret' = [best |-> localSolns[ArgMin(finalScores)],
                    initialSolns |-> IF args.return_all THEN initialSolns ELSE None,
                    localSolns |-> IF args.return_all THEN localSolns ELSE None]

\* after the restarts: score every local solution with l1_penalty and
\* return the best
GraspFinish ==
    /\ pc = "iter" /\ args.alg = "grasp" /\ iIter >= args.iterations
    /\ GraspReturn([k \in 1..Len(localSolns) |->
                      compute_composite_fiducial_score(
                          Models[model], localSolns[k], prep_or_meas, args.score_func,
                          args.threshold, args.op_penalty, args.l1_penalty,
                          fid_cache).score])
    /\ UNCHANGED <<caller, model, prep_or_meas, fid_list, args, fid_cache, circuit_cache,
                   weights, score, L1, lessWeightOnly, scoreD, iIter, failCount,
                   initialSolns, localSolns>>

InitSel == InitSlack \/ InitSlackFixed \/ InitGrasp

NextSel ==
    \/ SlackStart \/ SlackRound \/ SlackFinish
    \/ GraspStart \/ GraspAttempt \/ GraspFinish

SpecSel == InitSel /\ [][NextSel]_vars

\* the restart loop of a GRASP call is running or has ended
GraspLooping == args.alg = "grasp" /\ weights # Unused

\* what the restart loop keeps true: the failures of the current restart
\* never exceed 10, the call has raised out of the loop exactly when they
\* reach 10 (and then holds the exception, no result), and every finished
\* restart has exactly one initial and one local solution
RetryInvariant ==
    GraspLooping =>
        /\ failCount \in 0..10
        /\ failCount = 10 <=> (pc = "raised" /\ iIter < args.iterations)
        /\ failCount = 10 => IsExc(ret)
        /\ Len(initialSolns) = iIter /\ Len(localSolns) = iIter
        /\ iIter <= args.iterations

\* what one attempt does: a failure adds one to the count and leaves the
\* solutions alone, a success adds one initial and one local solution and
\* starts the next restart with no failures
RetryStep ==
    (GraspLooping /\ pc = "iter" /\ iIter < args.iterations) =>
        \/ /\ failCount' = failCount + 1 /\ failCount < 10
           /\ UNCHANGED <<initialSolns, localSolns, iIter>>
           /\ pc' = "raised" <=> failCount' = 10
        \/ /\ failCount' = 0 /\ iIter' = iIter + 1 /\ pc' = "iter"
           /\ Len(initialSolns') = Len(initialSolns) + 1
           /\ Len(localSolns') = Len(localSolns) + 1
           /\ SubSeq(initialSolns', 1, iIter) = initialSolns
           /\ SubSeq(localSolns', 1, iIter) = localSolns

\* C18: each GRASP restart is attempted at most 10 times: a raising attempt
\* is retried while fewer than 10 attempts have failed, a successful
\* attempt contributes exactly one initial and one local solution, and the
\* 10th failure's exception leaves the call with no result, even if
\* earlier restarts succeeded
C18_RestartAttemptedAtMostTenTimes == [](RetryInvariant) /\ [][RetryStep]_vars

C18_Witness ==
    /\ GraspLooping /\ pc = "raised" /\ failCount = 10 /\ IsExc(ret)
    /\ iIter >= 1 /\ Len(localSolns) = iIter

\* the weight vector over fids_list of a returned list of circuits
WtsOf(l) == [i \in 1..Len(fid_list) |-> IF InList(fid_list[i], l) THEN 1 ELSE 0]

\* the score of a list of circuits under the call's configuration with the
\* given l1_penalty
ScoreWith(l, l1_penalty) ==
    compute_composite_fiducial_score(Models[model], l, prep_or_meas, args.score_func,
                                     args.threshold, args.op_penalty, l1_penalty,
                                     fid_cache).score

\* no neighbour of the list (a flip of one unforced coordinate) is feasible
\* and scores strictly better when scored with l1_penalty = 0
LocalOptimumWithoutL1(l) ==
    \A i \in 1..Len(fid_list) :
        LET nb == Selected(fid_list, [WtsOf(l) EXCEPT ![i] = 1 - @])
        IN  weights[i] = 0 =>
               ~(/\ Feasible(Models[model], args, ScoreWith(nb, Num(0)))
                 /\ CompositeLt(ScoreWith(nb, Num(0)), ScoreWith(l, Num(0))))

\* C19: the solution the GRASP selector returns is one of the restarts'
\* local solutions, its final score (with l1_penalty) is <= the final score
\* of every restart's local solution, and the search itself scores with
\* l1_penalty = 0 whatever the l1_penalty argument (every local solution is
\* a local optimum of that score)
C19_BestIsLowestFinalScore ==
    (GraspLooping /\ pc = "done") =>
        /\ \E k \in 1..Len(localSolns) : ret.best = localSolns[k]
        /\ \A k \in 1..Len(localSolns) :
              /\ ~CompositeLt(ScoreWith(localSolns[k], args.l1_penalty),
                              ScoreWith(ret.best, args.l1_penalty))
              /\ LocalOptimumWithoutL1(localSolns[k])

C19_Witness ==
    /\ GraspLooping /\ pc = "done" /\ ~IsZero(args.l1_penalty)
    /\ Len(localSolns) >= 2 /\ ret.best = localSolns[2]
    /\ CompositeLt(ScoreWith(ret.best, args.l1_penalty),
                   ScoreWith(localSolns[1], args.l1_penalty))

\* the results an attempt of the call can have when it is handed seed
OutcomesWith(seed) ==
    run_grasp_iteration(Models[model], prep_or_meas, fid_list, args, fid_cache,
                        weights, seed)

RECURSIVE Remove(_, _)
Remove(s, x) ==
    IF s = <<>> THEN <<>>
    ELSE IF Head(s) = x THEN Tail(s)
    ELSE <<Head(s)>> \o Remove(Tail(s), x)

\* "for gate in fidOps: if <gate is the identity>: fidOps.remove(gate)":
\* the list is edited while it is iterated; i is the iterator's position.
\* eq_thresh bounds the squared distance
RECURSIVE RemoveIdentityOps(_, _, _, _)
RemoveIdentityOps(m, fidOps, i, eq_thresh) ==
    IF i > Len(fidOps) THEN fidOps
    ELSE IF FrobSq(m.operations[fidOps[i]], Identity(m.dim)) < eq_thresh
    THEN RemoveIdentityOps(m, Remove(fidOps, fidOps[i]), i + 1, eq_thresh)
    ELSE RemoveIdentityOps(m, fidOps, i + 1, eq_thresh)

\* the operations the fiducials are built from
fidOps(m, ops_to_omit, omit_identity, eq_thresh) ==
    IF omit_identity
    THEN RemoveIdentityOps(m, SelectSeq(m.opLabels, LAMBDA g : ~InList(g, ops_to_omit)),
                           1, eq_thresh)
    ELSE SelectSeq(m.opLabels, LAMBDA g : ~InList(g, ops_to_omit))

\* availableFidList and its circuit cache after clean_fid_list
CleanedUniverse(m, availableFidList, eq_thresh_sq) ==
    clean_fid_list(m, create_circuit_cache(m, availableFidList), availableFidList,
                   TRUE, TRUE, eq_thresh_sq)

\* algorithm_kwargs after the slack branch completed it (verbosity left out)
slack_kwargs(algorithm_kwargs, availableFidList, force_empty) ==
    algorithm_kwargs
    @@ (IF /\ "slack_frac" \notin DOMAIN algorithm_kwargs
           /\ "fixed_slack" \notin DOMAIN algorithm_kwargs
        THEN [slack_frac |-> Num(1)] ELSE EmptyDict)
    @@ [fid_list |-> availableFidList, force_empty |-> force_empty,
        score_func |-> "all"]

\* algorithm_kwargs after the grasp branch completed it (verbosity left out)
grasp_kwargs(algorithm_kwargs, availableFidList, force_empty) ==
    algorithm_kwargs
    @@ [fids_list |-> availableFidList, alpha |-> Rat(1, 10),
        op_penalty |-> Rat(1, 10), force_empty |-> force_empty,
        score_func |-> "all", return_all |-> FALSE]

\* the defaults of _find_fiducials_integer_slack's signature
SlackDefaults ==
    [initial_weights |-> None, score_func |-> "all", max_iter |-> DefaultMaxIter,
     fixed_slack |-> None, slack_frac |-> None, return_all |-> FALSE,
     force_empty |-> TRUE, force_empty_score |-> E100, fixed_num |-> None,
     threshold |-> Num(1000000)]

\* the defaults of _find_fiducials_grasp's signature
GraspDefaults ==
    [iterations |-> 5, score_func |-> "all", op_penalty |-> Num(0),
     l1_penalty |-> Num(0), return_all |-> FALSE, force_empty |-> TRUE,
     threshold |-> Num(1000000), seed |-> None]

\* eq_thresh = 1e-6 on integer matrices: only distance 0 is below it (lin)
\* and below its square (sq)
EqThreshDefault == [lin |-> 1, sq |-> 1]

MaxFidLength == 1

FindModels == {"full", "preps2", "povm2", "twoids"}

\* the algorithm_kwargs the caller passes, per algorithm
KwargsFor(algorithm) ==
    CASE algorithm = "slack" ->
            {EmptyDict, [fixed_slack |-> Num(1)], [fixed_slack |-> Num(0)],
             [slack_frac |-> Rat(1, 2), max_iter |-> 1]}
      [] algorithm = "grasp" ->
            {EmptyDict, [return_all |-> TRUE],
             [iterations |-> 1, seed |-> [draws |-> [k \in 1..MaxDraws |-> k % DrawRange]]]}
      [] OTHER -> {EmptyDict}

InitFind ==
    /\ pc = "called"
    /\ model \in FindModels
    /\ \E oi \in BOOLEAN, fe \in BOOLEAN, mfl \in 0..MaxFidLength :
       \E oto \in {<<>>, <<"Gx">>, <<"Gx", "Gy">>} :
       \E alg \in {"slack", "grasp", "foo"} :
       \E kw \in KwargsFor(alg) :
          caller = [stage |-> "setup", omit_identity |-> oi,
                    eq_thresh |-> EqThreshDefault, ops_to_omit |-> oto,
                    force_empty |-> fe, max_fid_length |-> mfl, algorithm |-> alg,
                    algorithm_kwargs |-> kw, prep_cache |-> None,
                    meas_cache |-> None, prepFidList |-> None, fidOps |-> None,
                    cleaned_availableFidList |-> None, calls |-> 1,
                    kwargs_passed |-> kw]
    /\ prep_or_meas = Unused /\ fid_list = Unused /\ args = Unused
    /\ fid_cache = Unused /\ circuit_cache = Unused
    /\ weights = Unused /\ score = Unused /\ L1 = Unused
    /\ lessWeightOnly = Unused /\ scoreD = Unused /\ iIter = Unused
    /\ failCount = Unused /\ initialSolns = Unused /\ localSolns = Unused
    /\ ret = None

\* the selector call for the prep role, or the ValueError of the final else
\* branch; cleaned is clean_fid_list's result
FindCallPrep(ops, cleaned, kw) ==
    /\ circuit_cache' = cleaned.cache
    /\ IF caller.algorithm \in {"slack", "grasp"}
       THEN /\ caller' = [caller EXCEPT
                    !.stage = "prep", !.algorithm_kwargs = kw, !.fidOps = ops,
                    !.cleaned_availableFidList = cleaned.list,
                    !.prep_cache = create_prep_cache(Models[model], cleaned.list,
                                                     [dict |-> cleaned.cache]),
                    !.meas_cache = create_meas_cache(Models[model], cleaned.list,
                                                     [dict |-> cleaned.cache])]
            /\ pc' = "start"
            /\ prep_or_meas' = "prep"
            /\ fid_list' = IF caller.algorithm = "slack" THEN kw.fid_list
                           ELSE kw.fids_list
            /\ args' = IF caller.algorithm = "slack"
                       THEN [alg |-> "slack"] @@ kw @@ SlackDefaults
                       ELSE [alg |-> "grasp"] @@ kw @@ GraspDefaults
            /\ fid_cache' = IF caller.algorithm = "slack" THEN Unused
                            ELSE caller'.prep_cache
            /\ ret' = None
       ELSE /\ caller' = [caller EXCEPT
                    !.stage = "end", !.fidOps = ops,
                    !.cleaned_availableFidList = cleaned.list,
                    !.prep_cache = create_prep_cache(Models[model], cleaned.list,
                                                     [dict |-> cleaned.cache]),
                    !.meas_cache = create_meas_cache(Models[model], cleaned.list,
                                                     [dict |-> cleaned.cache])]
            /\ pc' = "raised"
            /\ ret' = ValueError
            /\ UNCHANGED <<prep_or_meas, fid_list, args, fid_cache>>
    /\ UNCHANGED <<model, weights, score, L1, lessWeightOnly, scoreD, iIter,
                   failCount, initialSolns, localSolns>>

FindKwargs(ops, cleaned) ==
    FindCallPrep(ops, cleaned,
        CASE caller.algorithm = "slack" ->
                slack_kwargs(caller.algorithm_kwargs, cleaned.list, caller.force_empty)
          [] caller.algorithm = "grasp" ->
                grasp_kwargs(caller.algorithm_kwargs, cleaned.list, caller.force_empty)
          [] OTHER -> caller.algorithm_kwargs)

\* availableFidList is built from the operations ops and cleaned
FindUniverse(ops) ==
    FindKwargs(ops, CleanedUniverse(Models[model],
                        list_all_circuits(ops, 0, caller.max_fid_length),
                        caller.eq_thresh.sq))

\* find_fiducials up to its first selector call
FindSetup ==
    /\ pc = "called" /\ caller.stage = "setup"
    /\ FindUniverse(fidOps(Models[model], caller.ops_to_omit, caller.omit_identity,
                            caller.eq_thresh.lin))

\* the prep selector came back: an exception leaves find_fiducials, a
\* result is kept as prepFidList (its score is computed only to be logged)
\* and the selector is called for meas
FindAfterPrep ==
    /\ pc \in {"done", "raised"} /\ caller.stage = "prep"
    /\ IF pc = "raised"
       THEN /\ caller' = [caller EXCEPT !.stage = "end"]
            /\ UNCHANGED <<pc, prep_or_meas, fid_cache, weights, score, L1,
                           lessWeightOnly, scoreD, iIter, failCount, initialSolns,
                           localSolns, ret>>
       ELSE /\ caller' = [caller EXCEPT !.stage = "meas", !.prepFidList = ret]
            /\ pc' = "start"
            /\ prep_or_meas' = "meas"
            /\ fid_cache' = IF caller.algorithm = "slack" THEN Unused
                            ELSE caller.meas_cache
            /\ weights' = Unused /\ score' = Unused /\ L1' = Unused
            /\ lessWeightOnly' = Unused /\ scoreD' = Unused /\ iIter' = Unused
            /\ failCount' = Unused /\ initialSolns' = Unused
            /\ localSolns' = Unused
            /\ ret' = None
    /\ UNCHANGED <<model, fid_list, args, circuit_cache>>

\* the meas selector came back (its result's score is computed only to be
\* logged): return prepFidList, measFidList
FindAfterMeas ==
    /\ pc \in {"done", "raised"} /\ caller.stage = "meas"
    /\ caller' = [caller EXCEPT !.stage = "end"]
    /\ IF pc = "raised"
       THEN UNCHANGED <<pc, ret>>
       ELSE /\ pc' = "returned"
            /\ ret' = [prepFidList |-> caller.prepFidList, measFidList |-> ret]
    /\ UNCHANGED <<model, prep_or_meas, fid_list, args, fid_cache, circuit_cache,
                   weights, score, L1, lessWeightOnly, scoreD, iIter, failCount,
                   initialSolns, localSolns>>

\* the caller, after a call that returned, calls find_fiducials again with
\* the same algorithm_kwargs object and other max_fid_length and
\* ops_to_omit; kwargs_passed is what the object holds at the call
MaxCalls == 2

FindAgain ==
    /\ pc = "returned" /\ caller.stage = "end" /\ caller.calls < MaxCalls
    /\ \E mfl \in 0..MaxFidLength, oto \in {<<>>, <<"Gx", "Gy">>} :
          caller' = [caller EXCEPT
                !.stage = "setup", !.calls = @ + 1,
                !.max_fid_length = mfl, !.ops_to_omit = oto,
                !.kwargs_passed = caller.algorithm_kwargs,
                !.prep_cache = None, !.meas_cache = None, !.prepFidList = None,
                !.fidOps = None, !.cleaned_availableFidList = None]
    /\ pc' = "called"
    /\ prep_or_meas' = Unused /\ fid_list' = Unused /\ args' = Unused
    /\ fid_cache' = Unused /\ circuit_cache' = Unused
    /\ weights' = Unused /\ score' = Unused /\ L1' = Unused
    /\ lessWeightOnly' = Unused /\ scoreD' = Unused /\ iIter' = Unused
    /\ failCount' = Unused /\ initialSolns' = Unused /\ localSolns' = Unused
    /\ ret' = None
    /\ UNCHANGED model

NextFind ==
    \/ FindSetup \/ FindAfterPrep \/ FindAfterMeas \/ FindAgain
    \/ SlackStart \/ SlackRound \/ SlackFinish
    \/ GraspStart \/ GraspAttempt \/ GraspFinish

SpecFind == InitFind /\ [][NextFind]_vars

(***************************************************************************)
(* Properties of the selectors.                                            *)
(***************************************************************************)
\* how many of fixed_slack and slack_frac the caller supplied (not None)
Supplied ==
    Cardinality({i \in 1..2 : <<args.fixed_slack, args.slack_frac>>[i] # None})

\* C1: _find_fiducials_integer_slack raises ValueError, before scoring
\* anything, exactly when the number of supplied (non-None) values among
\* fixed_slack and slack_frac is not one, whatever their numeric values
C1_ValueErrorIffNotOneSupplied ==
    (args.alg = "slack" /\ pc # "start") =>
        ((pc = "raised" /\ ret = ValueError /\ weights = Unused) <=> Supplied # 1)

\* N of the complete candidate list, scored without a cache
CompleteN ==
    compute_composite_fiducial_score(Models[model], fid_list, prep_or_meas,
                                     args.score_func, args.threshold,
                                     Num(0), Num(0), None).score.N

\* the call's arguments pass the checks made before the initial test
ArgsAccepted ==
    args.alg = "slack" => xor(args.fixed_slack, args.slack_frac)

\* C2: when the complete candidate list is not informationally complete
\* (N < dim) both selectors abort without running any search round or
\* restart: the slack selector returns None, the GRASP selector None, or a
\* triple of None when return_all is set
C2_InfeasibleUniverseAborts ==
    (pc # "start" /\ ArgsAccepted /\ CompleteN < Models[model].dim) =>
        /\ pc = "done"
        /\ ret = IF args.alg = "grasp" /\ args.return_all
                 THEN [best |-> None, initialSolns |-> None, localSolns |-> None]
                 ELSE None
        /\ weights = Unused /\ initialSolns = Unused /\ localSolns = Unused

C2_Witness ==
    /\ pc = "done" /\ args.alg = "grasp" /\ args.return_all
    /\ CompleteN < Models[model].dim
    /\ ret = [best |-> None, initialSolns |-> None, localSolns |-> None]

\* the cleaned candidate universe of the find_fiducials call fails the
\* completeness test (N < dim) for the role
RoleInfeasible(role) ==
    compute_composite_fiducial_score(Models[model], fid_list, role,
                                     args.score_func, args.threshold,
                                     Num(0), Num(0), None).score.N < Models[model].dim

\* the role's position of the pair find_fiducials returned
Position(role) == IF role = "prep" THEN ret.prepFidList ELSE ret.measFidList

\* a find_fiducials call with a valid algorithm and accepted selector
\* arguments has ended and a role's universe was infeasible
InfeasibleCallEnded ==
    /\ caller.stage = "end" /\ caller.algorithm \in {"slack", "grasp"}
    /\ ArgsAccepted
    /\ \E role \in {"prep", "meas"} : RoleInfeasible(role)

\* the selector returned a selection for the role
SelectionMade(role) ==
    IF args.alg = "slack" THEN "list" \in DOMAIN Position(role)
    ELSE "best" \in DOMAIN Position(role) /\ Len(Position(role).best) > 0

C23_RestartsHaveOwnGenerator ==
    (GraspLooping /\ args.seed # None /\ Len(localSolns) + failCount >= 2) =>
        \A i, j \in 0..Len(localSolns) : \A f, g \in 0..failCount :
            <<i, f>> # <<j, g>> =>
                AttemptSeed(args.seed, i, f) # AttemptSeed(args.seed, j, g)

\* a round of the hill-climb that found no better neighbour, relaxed, and
\* found none in the re-scan either: the score it leaves is the relaxed
\* threshold of the re-scan
RelaxedToBreak == SlackRound /\ pc' = "break"

\* C22: the relaxed acceptance threshold of the re-scan is
\* current score + fixed_slack when fixed_slack is given, and
\* current score * (1 + slack_frac) when slack_frac is given
C22_RelaxedThreshold ==
    [][RelaxedToBreak =>
          score' = IF Truthy(args.fixed_slack)
                   THEN NumAdd(score, args.fixed_slack)
                   ELSE NumMul(score, NumAdd(Num(1), args.slack_frac))]_vars

\* C24: once less-weight-only mode is active (from the start when
\* initial_weights is None, otherwise from the first relaxation onward) the
\* mode stays active and every accepted move of the hill-climb goes to a
\* vector with strictly fewer included circuits
C24_LessWeightOnlyNeverGrows ==
    [][SlackRound =>
          /\ lessWeightOnly => lessWeightOnly'
          /\ (lessWeightOnly' /\ weights' # weights) =>
                 /\ SumSeq(weights') < SumSeq(weights)
                 /\ L1' = SumSeq(weights') /\ L1' < L1]_vars

\* a hill-climb started from given initial weights that relaxed and then
\* moved on to a lighter vector
C24_Witness ==
    /\ pc = "loop" /\ args.alg = "slack"
    /\ args.initial_weights # None /\ lessWeightOnly
    /\ L1 < SumSeq(InitialWeights(args.initial_weights, Len(fid_list)))

\* the state the first scan of the round about to run leaves
FirstScan ==
    Scan(Models[model], prep_or_meas, fid_list, args, weights, 1,
         [weights |-> weights, score |-> score, L1 |-> L1,
          lessWeightOnly |-> lessWeightOnly, scoreD |-> scoreD,
          found |-> FALSE, exc |-> None, scored |-> <<>>])

\* the threshold of the re-scan
RelaxedScore == NumAdd(score, Slack(args, score))

\* a round relaxes and re-scans when its first scan, which leaves fs, found
\* no better neighbour and the slack is positive
Relaxes(fs) == ~fs.found /\ NumLt(Num(0), Slack(args, score))

\* the i-th neighbour is lighter and its score in memo is below the relaxed
\* threshold
LighterBelow(memo, i) ==
    /\ SumSeq(Flip(weights, i)) < SumSeq(weights)
    /\ NumLt(memo[Flip(weights, i)], RelaxedScore)

\* what a relaxation step does, fs being what the round's first scan left
RelaxationMove(fs) ==
    IF \E i \in 1..Len(weights) : LighterBelow(fs.scoreD, i)
    THEN /\ pc' = "loop"
         /\ \E i \in 1..Len(weights) :
               /\ weights' = Flip(weights, i)
               /\ LighterBelow(scoreD', i)
               /\ score' = scoreD'[weights']
    ELSE pc' = "break" /\ weights' = weights

\* a round that relaxes does what a relaxation step does
RelaxationOutcome(fs) == Relaxes(fs) => RelaxationMove(fs)

\* C25: a relaxation step moves only to a single-flip neighbour with
\* strictly fewer included circuits and a memoized score strictly below the
\* relaxed threshold, and the current score is then that neighbour's
\* memoized score; if there is no such neighbour the search ends with the
\* inclusion vector unchanged
C25_RelaxationMove ==
    [][SlackRound => RelaxationOutcome(FirstScan)]_vars

\* the hill-climb goes on after a relaxation step moved it: the current
\* score is above the start vector's, which no move of a first scan allows,
\* and it is the current vector's memoized score
C25_Witness ==
    /\ pc = "loop" /\ args.alg = "slack" /\ iIter >= 1
    /\ NumLt(scoreD[InitialWeights(args.initial_weights, Len(fid_list))], score)
    /\ score = scoreD[weights]

\* the vectors in sequence s are pairwise different
NoRepeats(s) == \A i, j \in 1..Len(s) : s[i] = s[j] => i = j

\* a round whose first scan called compute_score on the vectors calls took
\* the memo table from before to after: no vector was scored twice and none
\* that was in the table, every scored vector was entered, and no entry was
\* removed or changed
MemoExtended(calls, before, after) ==
    /\ NoRepeats(calls)
    /\ \A k \in 1..Len(calls) : calls[k] \notin DOMAIN before
    /\ DOMAIN after = DOMAIN before \cup {calls[k] : k \in 1..Len(calls)}
    /\ \A w \in DOMAIN before : after[w] = before[w]

\* C26: during a hill-climb each inclusion vector is scored at most once:
\* a round scores no vector twice and none that is in the memo table
\* scoreD, every vector it scores is entered there, no entry of scoreD is
\* removed or changed, and every entry is the score of its vector
C26_ScoredOnceWriteOnce ==
    [][SlackRound =>
          /\ MemoExtended(FirstScan.scored, scoreD, scoreD')
          /\ \A w \in DOMAIN scoreD' \ DOMAIN scoreD :
                scoreD'[w] = compute_score(Models[model], prep_or_meas, fid_list,
                                           args, w)]_vars

\* a second round is over in which a neighbour was read from the memo
\* table: not every neighbour the two rounds looked at is a new entry
C26_Witness ==
    /\ pc \in {"loop", "break"} /\ args.alg = "slack" /\ iIter >= 1
    /\ Cardinality(DOMAIN scoreD) < 1 + 2 * Len(fid_list)
    /\ Cardinality(DOMAIN scoreD) > 1 + Len(fid_list)

\* a hill-climb of the slack selector is running or is over
HillClimb ==
    /\ args.alg = "slack" /\ weights # Unused
    /\ args.fixed_num = None

\* the rounds of the main loop that were run: iIter counts the rounds that
\* moved, and the round that broke off or raised comes on top
Rounds == iIter + (IF pc \in {"break", "raised"} THEN 1 ELSE 0)

\* C27: the slack hill-climb terminates: it runs at most max_iter rounds,
\* and at most len(fid_list) + 1 rounds when it starts from the default
\* all-ones vector, whatever max_iter is, because each of these rounds
\* moves to a vector with one circuit less or ends the search
C27_RoundsBounded ==
    HillClimb =>
        /\ Rounds <= args.max_iter
        /\ args.initial_weights = None =>
              /\ Rounds <= Len(fid_list) + 1
              /\ L1 = Len(fid_list) - iIter

\* a hill-climb from the default vector with max_iter above
\* len(fid_list) + 1 has ended at a stationary point
C27_Witness ==
    /\ HillClimb /\ pc = "done"
    /\ args.initial_weights = None
    /\ args.max_iter > Len(fid_list) + 1
    /\ iIter >= 1

\* row is a 0/1 vector of length n and Hamming weight k
BitVector(row, n, k) ==
    /\ Len(row) = n
    /\ \A j \in 1..n : row[j] \in {0, 1}
    /\ SumSeq(row) = k

\* C28: for every 0 <= k <= n build_bitvec_mx(n, k) returns (it does not
\* raise) exactly binom(n, k) pairwise distinct rows, each a 0/1 vector of
\* length n and Hamming weight k
C28_AllBitVectorsOfWeightK ==
    (args.alg = "bitvec" /\ pc # "start") =>
        /\ pc = "done"
        /\ Len(ret.bitVecMx) = Binom(args.n, args.k)
        /\ NoRepeats(ret.bitVecMx)
        /\ \A r \in 1..Len(ret.bitVecMx) : BitVector(ret.bitVecMx[r], args.n, args.k)

\* every single-flip neighbour of the current vector is a key of memo
NeighboursIn(memo) ==
    \A i \in 1..Len(weights) : Flip(weights, i) \in DOMAIN memo

\* C29: when a round of the hill-climb gets to its re-scan, every
\* single-flip neighbour of the current vector is in the memo table scoreD
\* (the first scan scored it or found it there), so the re-scan's reads of
\* scoreD never raise KeyError
C29_RescanFindsEveryNeighbour ==
    [][SlackRound => NeighboursIn(FirstScan.scoreD) /\ ret' # KeyError]_vars

\* a re-scan read the memo table for a lighter neighbour and the search
\* ended at a stationary point
C29_Witness ==
    /\ pc = "break" /\ args.alg = "slack"
    /\ \E i \in 1..Len(weights) :
          /\ SumSeq(Flip(weights, i)) < L1
          /\ Flip(weights, i) \in DOMAIN scoreD
          /\ ~NumLt(scoreD[Flip(weights, i)], score)

\* the list a selector is handed is the one cleaned in the same call
ListFresh ==
    caller.stage \in {"prep", "meas"} => fid_list = caller.cleaned_availableFidList

\* C30: find_fiducials leaves the caller's algorithm_kwargs as it was
\* passed, and each call that reuses the object (no candidate list having
\* been put into it by the caller) hands its selector the cleaned candidate
\* list built in that same call
C30_KwargsUntouchedListFresh ==
    /\ caller.stage \in {"prep", "meas", "end"} =>
          caller.algorithm_kwargs = caller.kwargs_passed
    /\ ListFresh

\* operation gate of the model is within eq_thresh of the identity
NearIdentity(gate) ==
    FrobSq(Models[model].operations[gate], Identity(Models[model].dim))
        < caller.eq_thresh.lin

\* C21: with omit_identity=True no operation whose squared Frobenius
\* distance to the identity is below eq_thresh is left among the operations
\* the candidate fiducials are built from
C21_NearIdentityOpsOmitted ==
    (caller.stage \in {"prep", "meas", "end"} /\ caller.omit_identity) =>
        \A i \in 1..Len(caller.fidOps) : ~NearIdentity(caller.fidOps[i])

\* C13: find_fiducials called with an algorithm other than 'slack' or
\* 'grasp' raises ValueError immediately, before any computation: no circuit
\* cache, cleaning or prep/meas cache is built before the error
C13_InvalidAlgorithmRaisesFirst ==
    (caller.algorithm \notin {"slack", "grasp"} /\ pc # "called") =>
        /\ pc = "raised" /\ ret = ValueError
        /\ circuit_cache = Unused
        /\ caller.prep_cache = None /\ caller.meas_cache = None

\* the complete candidate list, scored as the selectors' initial test
\* scores it
CompleteTest ==
    test_fiducial_list(Models[model], fid_list, prep_or_meas, args.score_func,
                       args.threshold, Num(0), Num(0), None)

\* C15: test_fiducial_list returns False for a list whose score exceeds the
\* threshold argument, and the slack selector auto-fails (returns None)
\* when the score of the complete list is above threshold
C15_AboveThresholdRejected ==
    (args.alg = "slack" /\ pc # "start" /\ ArgsAccepted
        /\ NumLt(args.threshold, CompleteTest.score.minor)) =>
        /\ ~CompleteTest.testResult
        /\ pc = "done" /\ ret = None

\* a fixed_num call whose arguments are accepted and whose complete list
\* passes the initial test has left its start
FixedNumRan ==
    /\ args.alg = "slack" /\ args.fixed_num # None /\ pc # "start"
    /\ ArgsAccepted /\ CompleteTest.testResult

\* C16: in fixed_num mode the slack selector terminates and returns a list
\* of exactly fixed_num circuits for every 1 <= fixed_num <= len(fid_list),
\* which with force_empty includes fid_list[0]; in particular for
\* fixed_num = 1 with force_empty
C16_FixedNumReturnsExactSize ==
    FixedNumRan =>
        /\ pc = "done"
        /\ Len(ret.list) = args.fixed_num.num
        /\ args.force_empty => InList(fid_list[1], ret.list)

\* the total number of operations of the circuits wts selects
OpsOf(wts) == TotalOps(Selected(fid_list, wts))

\* C17: in fixed_num mode every vector of the required Hamming weight (the
\* empty-circuit bit pinned to 1 with force_empty) is scored, the selected
\* vector has the minimum score among them, and among the vectors whose
\* score ties with that minimum it has the fewest total operations
C17_FixedNumPicksMinimum ==
    (FixedNumRan /\ pc = "done") =>
        /\ DOMAIN scoreD =
              {v \in [1..Len(fid_list) -> {0, 1}] :
                  SumSeq(v) = args.fixed_num.num /\ (args.force_empty => v[1] = 1)}
        /\ weights \in DOMAIN scoreD /\ score = scoreD[weights]
        /\ ret.list = Selected(fid_list, weights)
        /\ \A v \in DOMAIN scoreD :
              /\ ~NumLt(scoreD[v], scoreD[weights])
              /\ scoreD[v] = scoreD[weights] => OpsOf(weights) <= OpsOf(v)

C17_Witness ==
    /\ FixedNumRan /\ pc = "done"
    /\ scoreD[weights] # E10
    /\ \E v \in DOMAIN scoreD :
          scoreD[v] = scoreD[weights] /\ OpsOf(weights) < OpsOf(v)
    /\ \E v \in DOMAIN scoreD : NumLt(scoreD[weights], scoreD[v])

\* C4: every non-None list the slack selector returns in hill-climb mode is
\* informationally complete, for any initial_weights, max_iter and slack
\* setting; it never returns an incomplete set while reporting that the
\* final set succeeds
C4_ReturnedListComplete ==
    (args.alg = "slack" /\ args.fixed_num = None /\ pc = "done" /\ ret # None) =>
        test_fiducial_list(Models[model], ret.list, prep_or_meas, args.score_func,
                           args.threshold, Num(0), Num(0), None).testResult

\* C5: with force_empty and the empty circuit at position 0 of fid_list,
\* every list the slack selector returns contains the empty circuit: a
\* vector with bit 0 cleared only ever gets the sentinel force_empty_score
\* and is never the final vector
C5_ForcedEmptyInResult ==
    (args.alg = "slack" /\ args.force_empty /\ fid_list[1] = <<>>
        /\ pc = "done" /\ ret # None) =>
        /\ \A v \in DOMAIN scoreD : v[1] = 0 => scoreD[v] = args.force_empty_score
        /\ weights[1] = 1
        /\ InList(<<>>, ret.list)

\* C6: with force_empty the GRASP selector forces the coordinate of the
\* first zero-length circuit of fids_list in the initial weights and in
\* every restart's neighbourhood, so every restart's solutions and the
\* best solution returned contain the empty circuit
C6_GraspKeepsEmptyCircuit ==
    (args.alg = "grasp" /\ args.force_empty /\ weights # Unused) =>
        /\ \A i \in 1..Len(fid_list) :
              weights[i] = IF Len(fid_list[i]) = 0
                              /\ \A j \in 1..(i - 1) : Len(fid_list[j]) # 0
                           THEN 1 ELSE 0
        /\ \A k \in 1..Len(localSolns) :
              InList(<<>>, initialSolns[k]) /\ InList(<<>>, localSolns[k])
        /\ (pc = "done" => InList(<<>>, ret.best))

C6_Witness ==
    /\ args.alg = "grasp" /\ args.force_empty /\ pc = "done"
    /\ fid_list[1] # <<>>
    /\ InList(<<>>, ret.best)
    /\ \E k \in 1..Len(localSolns) : localSolns[k] # initialSolns[k]

====
